---------------------------- MODULE Spec2Model ----------------------------
(***************************************************************************)
(* Verification model of xpSHACL: the violation signature and its cache   *)
(* key (violation_signature.py, violation_signature_factory.py,           *)
(* violation_kg.py), the knowledge-graph cache (violation_kg.py), the      *)
(* pipeline coordinator (main.py) and the justification tree builder       *)
(* (justification_tree_builder.py).                                        *)
(*                                                                         *)
(* Python values are modelled as follows.                                  *)
(*   str          a sequence of tokens (each token a piece of text);       *)
(*                concatenation is \o, the empty string is << >>.          *)
(*   Optional     a record [kind, s]: kind "none" (None), "str" (a str     *)
(*                with text s) or "enum" (a ViolationType member named     *)
(*                by the single token of s).                               *)
(*   dict         a sequence of <<key, value>> pairs with distinct keys,   *)
(*                in insertion order; dict equality ignores the order.     *)
(*   rdflib.Graph a record of sets of triples, one field per predicate.    *)
(***************************************************************************)
EXTENDS Integers, Sequences, FiniteSets, TLC

VARIABLES
    \* --- signature canonicalisation (SpecSig) ---
    sig_pc,      \* "viol" | "sig" | "uri": what has been computed so far
    violA, violB,\* two ConstraintViolation inputs (or NoViolation)
    sigA, sigB,  \* two ViolationSignature values
    uriA, uriB,  \* their cache keys (signature_to_uri), << >> before computed
    sigEq        \* sigA == sigB as Python evaluates it

sig_vars == <<sig_pc, violA, violB, sigA, sigB, uriA, uriB, sigEq>>

VARIABLES
    \* --- the knowledge-graph cache (SpecKG, Spec) ---
    graph,       \* ViolationKnowledgeGraph.graph, the in-memory rdflib graph
    disk,        \* the triples of the file at kg_path (empty: no file yet)
    kg_op,       \* the last cache operation and its arguments
    kg_ops       \* how many cache operations have been made

kg_vars == <<graph, disk, kg_op, kg_ops>>

VARIABLES
    \* --- the justification tree builder (SpecJT, Spec) ---
    jt_pc,        \* "input" | "built"
    jt_violation, \* the violation given to build_justification_tree
    jt_outcome,   \* what the call returned, or that it raised
    shapes_graph, \* JustificationTreeBuilder.shapes_graph
    data_graph    \* JustificationTreeBuilder.data_graph

jt_vars == <<jt_pc, jt_violation, jt_outcome, shapes_graph, data_graph>>

VARIABLES
    \* --- the pipeline coordinator main() (Spec) ---
    pc,           \* where main() is: "start", "violations", "grouped",
                  \* "processed", "saved", "done"; or how it ended early:
                  \* "exit0", "exit1", "crashed"
    run,          \* the number of the run
    input_report, \* --input_report was given
    local,        \* --local was given
    violations,   \* the violation instances, in report order
    languages,    \* the requested languages, in order
    violations_by_signature,   \* dict: signature -> list of violations
    explanations_by_signature, \* dict: signature -> {lang: ExplanationOutput}
    llm_calls,    \* the <<signature, language, answer>> of the backend's calls in this run
    final_explanations_output, \* the list written as the output
    cache_at_start, \* the graph as loaded at the start of the run
    cache_log     \* the calls of add_violation ("put") and save_kg ("save")
                  \* made in this run, in order

main_vars == <<pc, run, input_report, local, violations, languages,
               violations_by_signature, explanations_by_signature, llm_calls,
               final_explanations_output, cache_at_start, cache_log>>

VARIABLES
    \* --- one call of the explanation generator (SpecGen) ---
    gen_pc,        \* "input" | "returned" | "raised"
    gen_local,     \* the generator is the LocalExplanationGenerator
    gen_message,   \* violation.message
    gen_languages, \* the languages asked for
    gen_oracle,    \* what the backend answers for each language
    gen_prompts,   \* the first words of the prompts sent to the backend
    gen_output     \* the dict returned: a sequence of <<lang, explanation>>

gen_vars == <<gen_pc, gen_local, gen_message, gen_languages, gen_oracle,
              gen_prompts, gen_output>>

VARIABLES
    \* --- ExtendedShaclValidator._add_violation_context (SpecCtx) ---
    ctx_pc,        \* "input" | "returned" | "raised"
    ctx_violation, \* the violation before the call
    ctx_result,    \* sh:resultSeverity and sh:value of the validation result
    ctx_outcome    \* the violation after the call

ctx_vars == <<ctx_pc, ctx_violation, ctx_result, ctx_outcome>>

vars == <<sig_vars, kg_vars, jt_vars, main_vars, gen_vars, ctx_vars>>

---------------------------------------------------------------------------
(* Bounds *)

\* longest property_path text enumerated, in tokens
MaxLen == 2
\* most entries of a constraint_params dict enumerated
MaxParams == 2
\* most cache operations made on one knowledge graph
MaxOps == 4
\* violations given to one pipeline run; runs made on one cache file
MaxViolations == 2
MaxRuns == 2

---------------------------------------------------------------------------
(* Python values *)

None == [kind |-> "none", s |-> << >>]
Str(s) == [kind |-> "str", s |-> s]
Enum(n) == [kind |-> "enum", s |-> <<n>>]

\* Python truthiness: None and "" are falsy, an Enum member is truthy.
Truthy(v) == v.kind = "enum" \/ (v.kind = "str" /\ v.s # << >>)

\* str(v), also what an f-string interpolates: str(None) is "None",
\* str(ViolationType.X) is "ViolationType.X".
PyStr(v) ==
    CASE v.kind = "none" -> <<"None">>
      [] v.kind = "enum" -> <<"ViolationType.">> \o v.s
      [] OTHER -> v.s

\* all token sequences over alphabet A of length at most n
RECURSIVE StringsUpTo(_, _)
StringsUpTo(A, n) ==
    IF n = 0 THEN {<< >>}
    ELSE LET shorter == StringsUpTo(A, n - 1)
         IN  shorter \cup {Append(s, c) : s \in shorter, c \in A}

\* "x in s" for a component name x and a str s (token containment)
Contains(v, x) == v.kind = "str" /\ \E i \in 1..Len(v.s) : v.s[i] = x

---------------------------------------------------------------------------
(* dict: insertion-ordered key/value pairs *)

\* the keys of constraint_params, in code-point order
ParamKeys == <<"k1", "k2", "minCount">>
ParamVals == {"1", "2"}

KeyRank(k) == CHOOSE i \in 1..Len(ParamKeys) : ParamKeys[i] = k

DictItems(d) == {d[i] : i \in 1..Len(d)}
DictKeys(d) == {d[i][1] : i \in 1..Len(d)}
IsDict(d) == \A i, j \in 1..Len(d) : d[i][1] = d[j][1] => i = j

\* dict == dict: the same key/value pairs, whatever the insertion order
DictEq(d, e) == DictItems(d) = DictItems(e)

\* sorted(params.items()): ascending by key (keys of a dict are distinct)
RECURSIVE SortedItems(_)
SortedItems(items) ==
    IF items = {} THEN << >>
    ELSE LET least == CHOOSE p \in items :
                          \A q \in items : KeyRank(p[1]) <= KeyRank(q[1])
         IN  <<least>> \o SortedItems(items \ {least})

UnsortedItems(d) == d

sorted_params_items(d) == SortedItems(DictItems(d))

\* repr of a list of (str, str) tuples: "[('k', 'v'), ('k2', 'v2')]"
RECURSIVE ReprItems(_)
ReprItems(l) ==
    IF l = << >> THEN << >>
    ELSE <<"('", l[1][1], "', '", l[1][2], "')">>
         \o (IF Len(l) > 1 THEN <<", ">> ELSE << >>)
         \o ReprItems(Tail(l))

ReprList(l) == <<"[">> \o ReprItems(l) \o <<"]">>

---------------------------------------------------------------------------
(* ViolationSignature (violation_signature.py) *)

Signature(cid, pp, vt, params) ==
    [constraint_id |-> cid, property_path |-> pp,
     violation_type |-> vt, constraint_params |-> params]

\* dataclass-generated __eq__: the field tuples are compared; the dict field
\* compares as a dict.
ViolationSignature_eq(a, b) ==
    /\ a.constraint_id = b.constraint_id
    /\ a.property_path = b.property_path
    /\ a.violation_type = b.violation_type
    /\ DictEq(a.constraint_params, b.constraint_params)

\* hashlib.md5(...).hexdigest(): a function of the text hashed.  Its
\* collisions are outside this model, so the digest is represented by the
\* text it digests.
md5_hexdigest(text) == text

\* the text signature_to_uri hashes
signature_string(sig) ==
    PyStr(sig.constraint_id) \o <<"|">>
    \o (IF Truthy(sig.property_path) THEN PyStr(sig.property_path) ELSE <<"None">>)
    \o <<"|">>
    \o (IF Truthy(sig.violation_type) THEN PyStr(sig.violation_type) ELSE <<"None">>)
    \o <<"|">> \o ReprList(sorted_params_items(sig.constraint_params))

signature_to_uri(sig) == <<"xsh:sig_">> \o md5_hexdigest(signature_string(sig))




---------------------------------------------------------------------------
(* Text of explanations and suggestions *)

\* one line feed character
NL == "NL"
\* SUGGESTION_SEPARATOR = "\n\n"
SUGGESTION_SEPARATOR == <<NL, NL>>

\* separator.join(list of str)
RECURSIVE Join(_)
Join(l) ==
    IF l = << >> THEN << >>
    ELSE IF Len(l) = 1 THEN l[1]
    ELSE l[1] \o SUGGESTION_SEPARATOR \o Join(Tail(l))

\* text.split(separator): cut at each separator found scanning left to right
RECURSIVE SplitFrom(_, _)
SplitFrom(text, i) ==
    IF i + 1 > Len(text) THEN <<text>>
    ELSE IF text[i] = NL /\ text[i + 1] = NL
         THEN <<SubSeq(text, 1, i - 1)>> \o SplitFrom(SubSeq(text, i + 2, Len(text)), 1)
         ELSE SplitFrom(text, i + 1)

Split(text) == SplitFrom(text, 1)

\* correction_suggestions is a list of str or one combined str
ListOf(items) == [kind |-> "list", items |-> items]
StrOf(text) == [kind |-> "str", items |-> <<text>>]

SuggestionsTruthy(cs) ==
    IF cs.kind = "list" THEN cs.items # << >> ELSE cs.items[1] # << >>

---------------------------------------------------------------------------
(* ExplanationOutput *)

ExplanationOutput(nle, cs, model, viol, jt, ctx) ==
    [natural_language_explanation |-> nle, correction_suggestions |-> cs,
     provided_by_model |-> model, violation |-> viol,
     justification_tree |-> jt, retrieved_context |-> ctx]

\* Optional[ExplanationOutput]
Absent_Explanation ==
    [found |-> FALSE,
     value |-> ExplanationOutput(<< >>, ListOf(<< >>), None, None, None, None)]
Found(e) == [found |-> TRUE, value |-> e]

---------------------------------------------------------------------------
(* The knowledge graph: an rdflib graph as sets of triples, by predicate  *)

EmptyGraph ==
    [types |-> {}, hasExplanation |-> {}, sigProps |-> {},
     naturalLanguageText |-> {}, correctionSuggestions |-> {},
     providedByModel |-> {}, json |-> {}]

GraphFields == DOMAIN EmptyGraph

\* Graph.parse into a graph: the parsed triples are added to it
GraphUnion(g, h) == [f \in GraphFields |-> g[f] \cup h[f]]

\* size(): the number of triples
GraphSize(g) ==
    Cardinality(g.types) + Cardinality(g.hasExplanation) + Cardinality(g.sigProps)
    + Cardinality(g.naturalLanguageText) + Cardinality(g.correctionSuggestions)
    + Cardinality(g.providedByModel) + Cardinality(g.json)

NoUri == << >>

\* graph.value(sig_uri, XSH.hasExplanation): an object of the triple, or None
ExplanationUriOf(g, sig_uri) ==
    IF \E l \in g.hasExplanation : l[1] = sig_uri
    THEN (CHOOSE l \in g.hasExplanation : l[1] = sig_uri)[2]
    ELSE NoUri

\* the literals of one predicate of expl_uri that carry the language tag
LangLiterals(triples, expl_uri, language) ==
    {l \in triples : l[1] = expl_uri /\ l[3] = language}

\* json.dumps(constraint_params, sort_keys=True)
JsonParams(d) == <<"json">> \o ReprList(SortedItems(DictItems(d)))

\* the triples that describe a new signature node (lines 223-237)
SignatureNodeTriples(g, sig, sig_uri, expl_uri) ==
    [g EXCEPT
        !.types = @ \cup {<<sig_uri, "ViolationSignature">>, <<expl_uri, "Explanation">>},
        !.hasExplanation = @ \cup {<<sig_uri, expl_uri>>},
        !.sigProps = @ \cup {<<sig_uri, "constraintComponent", PyStr(sig.constraint_id)>>}
            \cup (IF Truthy(sig.property_path)
                  THEN {<<sig_uri, "propertyPath", PyStr(sig.property_path)>>} ELSE {})
            \cup (IF Truthy(sig.violation_type)
                  THEN {<<sig_uri, "violationType", PyStr(sig.violation_type)>>} ELSE {})
            \cup (IF sig.constraint_params # << >>
                  THEN {<<sig_uri, "constraintParams", JsonParams(sig.constraint_params)>>}
                  ELSE {})]

AddTextRefreshing(g, expl_uri, explanation, language) ==
    IF explanation.natural_language_explanation # << >>
    THEN [g EXCEPT !.naturalLanguageText =
            {l \in @ : ~(l[1] = expl_uri /\ l[3] = language)}
            \cup {<<expl_uri, explanation.natural_language_explanation, language>>}]
    ELSE g

\* an add that tags every text with the default language
AddTextDefaultLanguage(g, expl_uri, explanation, language) ==
    IF /\ LangLiterals(g.naturalLanguageText, expl_uri, "en") = {}
       /\ explanation.natural_language_explanation # << >>
    THEN [g EXCEPT !.naturalLanguageText =
            @ \cup {<<expl_uri, explanation.natural_language_explanation, "en">>}]
    ELSE g

\* lines 239-245: the text is added unless one exists for the language
AddText(g, expl_uri, explanation, language) ==
    IF /\ LangLiterals(g.naturalLanguageText, expl_uri, language) = {}
       /\ explanation.natural_language_explanation # << >>
    THEN [g EXCEPT !.naturalLanguageText =
            @ \cup {<<expl_uri, explanation.natural_language_explanation, language>>}]
    ELSE g

\* lines 247-259: the suggestions are combined and added unless some exist
AddSuggestions(g, expl_uri, explanation, language) ==
    LET cs == explanation.correction_suggestions
        suggestion_string_to_add ==
            IF cs.kind = "list" THEN Join(cs.items) ELSE cs.items[1]
    IN  IF /\ SuggestionsTruthy(cs)
           /\ LangLiterals(g.correctionSuggestions, expl_uri, language) = {}
        THEN [g EXCEPT !.correctionSuggestions =
                @ \cup {<<expl_uri, suggestion_string_to_add, language>>}]
        ELSE g

AddModelKeepingFirst(g, expl_uri, explanation) ==
    IF /\ Truthy(explanation.provided_by_model)
       /\ ~ \E m \in g.providedByModel : m[1] = expl_uri
    THEN [g EXCEPT !.providedByModel =
            @ \cup {<<expl_uri, PyStr(explanation.provided_by_model)>>}]
    ELSE g

\* lines 262-267: the model is replaced by the latest one given
AddModel(g, expl_uri, explanation) ==
    IF Truthy(explanation.provided_by_model)
    THEN [g EXCEPT !.providedByModel =
            {m \in @ : m[1] # expl_uri}
            \cup {<<expl_uri, PyStr(explanation.provided_by_model)>>}]
    ELSE g

\* lines 269-284: the audit objects are stored as JSON with a new node only
AddJson(g, expl_uri, explanation, new_explanation_node) ==
    LET literal(predicate, data_object) ==
            IF /\ Truthy(data_object)
               /\ ~ \E j \in g.json : j[1] = expl_uri /\ j[2] = predicate
            THEN {<<expl_uri, predicate, <<"json">> \o PyStr(data_object)>>}
            ELSE {}
    IN  IF new_explanation_node
        THEN [g EXCEPT !.json = @ \cup literal("violation", explanation.violation)
                    \cup literal("justificationTree", explanation.justification_tree)
                    \cup literal("retrievedContext", explanation.retrieved_context)]
        ELSE g

\* add_violation(sig, explanation, language): the graph afterwards
add_violation(g, sig, explanation, language) ==
    LET sig_uri == signature_to_uri(sig)
        found == ExplanationUriOf(g, sig_uri)
        new_explanation_node == found = NoUri
        expl_uri == IF new_explanation_node
                    THEN sig_uri \o <<"_explanation">> ELSE found
        g1 == IF new_explanation_node
              THEN SignatureNodeTriples(g, sig, sig_uri, expl_uri) ELSE g
        g2 == AddText(g1, expl_uri, explanation, language)
        g3 == AddSuggestions(g2, expl_uri, explanation, language)
        g4 == AddModel(g3, expl_uri, explanation)
    IN  AddJson(g4, expl_uri, explanation, new_explanation_node)

\* json.loads(str(literal)) returns: the literal is JSON text
Decodes(literal) == literal # << >> /\ Head(literal) = "json"

\* graph.value(expl_uri, predicate) of a JSON literal, decoded; None if
\* absent, and None if decoding raises (the error is logged)
JsonValue(g, expl_uri, predicate) ==
    IF \E j \in g.json : j[1] = expl_uri /\ j[2] = predicate
    THEN LET literal == (CHOOSE j \in g.json :
                            j[1] = expl_uri /\ j[2] = predicate)[3]
         IN  IF Decodes(literal) THEN Str(Tail(literal)) ELSE None
    ELSE None

\* get_explanation(sig, language): the record, or None
get_explanation(g, sig, language) ==
    LET sig_uri == signature_to_uri(sig)
        expl_uri == ExplanationUriOf(g, sig_uri)
        nlts == LangLiterals(g.naturalLanguageText, expl_uri, language)
        css == LangLiterals(g.correctionSuggestions, expl_uri, language)
        cs_combined == IF css = {} THEN << >> ELSE (CHOOSE l \in css : TRUE)[2]
        cs == IF cs_combined # << >> THEN Split(cs_combined) ELSE << >>
        models == {m \in g.providedByModel : m[1] = expl_uri}
        provided_by_model ==
            IF models = {} THEN None ELSE Str((CHOOSE m \in models : TRUE)[2])
    IN  IF expl_uri = NoUri \/ nlts = {}
        THEN Absent_Explanation
        ELSE Found(ExplanationOutput(
                (CHOOSE l \in nlts : TRUE)[2], ListOf(cs),
                IF Truthy(provided_by_model) THEN provided_by_model ELSE None,
                JsonValue(g, expl_uri, "violation"),
                JsonValue(g, expl_uri, "justificationTree"),
                JsonValue(g, expl_uri, "retrievedContext")))

\* a has_violation that looks for a text in any language
has_violation_any_language(g, sig, language) ==
    LET sig_uri == signature_to_uri(sig)
        expl_uri == ExplanationUriOf(g, sig_uri)
    IN  /\ <<sig_uri, "ViolationSignature">> \in g.types
        /\ expl_uri # NoUri
        /\ \E l \in g.naturalLanguageText : l[1] = expl_uri

\* has_violation(sig, language)
has_violation(g, sig, language) ==
    LET sig_uri == signature_to_uri(sig)
        expl_uri == ExplanationUriOf(g, sig_uri)
    IN  /\ <<sig_uri, "ViolationSignature">> \in g.types
        /\ expl_uri # NoUri
        /\ LangLiterals(g.naturalLanguageText, expl_uri, language) # {}

\* a clear that removes the explanation texts only
clear_texts_only(g) == [g EXCEPT !.naturalLanguageText = {}]

\* clear(): a new graph, without the ontology
clear(g) == EmptyGraph

\* a save that leaves the explanation texts out of the file
save_kg_without_texts(g) == [g EXCEPT !.naturalLanguageText = {}]

\* save_kg(): the whole graph is serialised to kg_path
save_kg(g) == g

\* a load that does not parse the file
load_nothing(file) == EmptyGraph

\* __init__ and load_kg(): a new graph into which the file at kg_path is
\* parsed.  The ontology file holds no instance data and is left out.
load_kg(file) == GraphUnion(EmptyGraph, file)

---------------------------------------------------------------------------
(* ConstraintViolation (xshacl_architecture.py) and the signature factory *)

\* context.get(key) is None
Absent == -1

Violation(fn, sh, cid, vt, pp, val, msg, sev, ctx) ==
    [focus_node |-> fn, shape_id |-> sh, constraint_id |-> cid,
     violation_type |-> vt, property_path |-> pp, value |-> val,
     message |-> msg, severity |-> sev, context |-> ctx]

EmptyContext == [minCount |-> Absent, maxCount |-> Absent, actualCount |-> Absent]

\* the SHACL namespace SH and one of its terms
SH(name) == <<"http://", "www.w3.org/ns/shacl#", name>>

MinCountIRI == SH("MinCountConstraintComponent")

\* a factory that reads the configured minCount from the violation's context
create_violation_signature_from_context(violation) ==
    LET constraint_params ==
            IF violation.constraint_id = Str(MinCountIRI)
            THEN <<<<"minCount",
                     IF violation.context.minCount = Absent THEN "1"
                     ELSE ToString(violation.context.minCount)>>>>
            ELSE << >>
    IN  Signature(violation.constraint_id, violation.property_path,
                  violation.violation_type, constraint_params)

create_violation_signature_with_focus(violation) ==
    Signature(violation.constraint_id, violation.property_path,
              violation.violation_type,
              <<<<"k1", violation.focus_node>>>>)

create_violation_signature(violation) ==
    LET constraint_params ==
            IF violation.constraint_id = Str(MinCountIRI)
            THEN <<<<"minCount", "1">>>>
            ELSE << >>
    IN  Signature(violation.constraint_id, violation.property_path,
                  violation.violation_type, constraint_params)

NoViolation ==
    Violation("", "", None, None, None, None, None, "", EmptyContext)
NoSignature == Signature(None, None, None, << >>)

---------------------------------------------------------------------------
(* JustificationTreeBuilder (justification_tree_builder.py).  A graph is a *)
(* sequence of triples [s, p, o] in the order rdflib iterates them; s is   *)
(* a node id, p and o are the texts str(p), str(o).  A builder step        *)
(* returns an outcome: the children added to the root, or the exception    *)
(* that left the builder.                                                  *)

Triple(s, p, o) == [s |-> s, p |-> p, o |-> o]

\* graph.triples((s, p, None)): the objects, in iteration order
Objects(g, s, p) ==
    LET matching == SelectSeq(g, LAMBDA t : t.s = s /\ t.p = p)
    IN  [i \in 1..Len(matching) |-> matching[i].o]

\* for s, p, o in triples(...): x = str(o)  -- x keeps the last match,
\* or its initial value (None, "") when nothing matches
LastObject(g, s, p) ==
    LET objects == Objects(g, s, p)
    IN  IF objects = << >> THEN << >> ELSE objects[Len(objects)]

JustificationNode(type, statement, evidence) ==
    [type |-> type, statement |-> statement, evidence |-> evidence]

Built(children) == [raised |-> FALSE, exc |-> "", children |-> children]
Raised(exc) == [raised |-> TRUE, exc |-> exc, children |-> << >>]

\* _format_uri(uri) on the text of a str; on None it raises AttributeError
format_uri(uri) ==
    IF uri # << >> /\ Head(uri) \in {"http://", "https://"}
    THEN <<"<">> \o uri \o <<">">>
    ELSE uri

\* _get_shape_constraint_text: the first triple of the shape whose
\* predicate is the constraint id gives the value
get_shape_constraint_text(sg, violation) ==
    LET of_shape == SelectSeq(sg, LAMBDA t : t.s = violation.shape_id
                                          /\ t.p = violation.constraint_id.s)
        constraint_value == IF of_shape = << >> THEN << >> ELSE of_shape[1].o
        text == <<"The shape ">> \o format_uri(<<violation.shape_id>>)
                \o <<" has a constraint ">> \o format_uri(violation.constraint_id.s)
    IN  IF constraint_value # << >>
        THEN text \o <<" with value ">> \o constraint_value \o <<".">>
        ELSE text \o <<".">>

Premise(sg, violation) ==
    JustificationNode("premise", get_shape_constraint_text(sg, violation),
                      Str(<<"From shape definition: ", violation.shape_id>>))

Inference(reasoning) == JustificationNode("inference", reasoning, None)

count_property_values(dg, focus_node, property_path) ==
    Len(Objects(dg, focus_node, property_path))

RECURSIVE N3Lines(_, _, _)
N3Lines(focus_node, property_path, objects) ==
    IF objects = << >> THEN << >>
    ELSE <<focus_node, " ">> \o property_path \o <<" ">> \o Head(objects)
         \o <<" .", NL>> \o N3Lines(focus_node, property_path, Tail(objects))

generate_data_evidence(dg, focus_node, property_path) ==
    Str(N3Lines(focus_node, property_path, Objects(dg, focus_node, property_path)))

RdfType == <<"rdf:type">>

generate_type_evidence(dg, focus_node) ==
    Str(N3Lines(focus_node, RdfType, Objects(dg, focus_node, RdfType)))

\* the reasoning of the two count branches: sign is "<" or ">", bound the
\* words "at least"/"at most", limit context.get(key, default)
CountChildren(dg, sg, violation, sign, bound, limit, kind) ==
    LET property_path == violation.property_path.s
        known == violation.context.actualCount
        actual_count ==
            IF known = Absent
            THEN count_property_values(dg, violation.focus_node, property_path)
            ELSE known
        limit_text == IF limit = Absent THEN <<bound, " 1">> ELSE <<ToString(limit)>>
        data_statement ==
            <<"The data shows that node ">> \o format_uri(<<violation.focus_node>>)
            \o <<" has ", ToString(actual_count), " values for property ">>
            \o format_uri(property_path)
        reasoning ==
            <<"Since ", ToString(actual_count), " ", sign, " ", bound, " ">>
            \o limit_text
            \o <<", the node violates the ", kind, " cardinality constraint of the shape">>
    IN  <<JustificationNode("observation", data_statement,
                            generate_data_evidence(dg, violation.focus_node, property_path)),
          Inference(reasoning)>>

\* the cardinality branch without the early return after the error child
build_cardinality_justification_no_return(dg, sg, violation) ==
    Built((IF ~Truthy(violation.property_path)
           THEN <<JustificationNode("error",
                    <<"Missing property path information for cardinality constraint">>,
                    None)>>
           ELSE << >>)
          \o <<Premise(sg, violation)>>)

build_cardinality_justification(dg, sg, violation) ==
    IF ~Truthy(violation.property_path)
    THEN Built(<<JustificationNode("error",
                   <<"Missing property path information for cardinality constraint">>,
                   None)>>)
    ELSE Built(<<Premise(sg, violation)>> \o
               (IF Contains(violation.constraint_id, "MinCountConstraintComponent")
                THEN CountChildren(dg, sg, violation, "<", "at least",
                                   violation.context.minCount, "minimum")
                ELSE IF Contains(violation.constraint_id, "MaxCountConstraintComponent")
                THEN CountChildren(dg, sg, violation, ">", "at most",
                                   violation.context.maxCount, "maximum")
                ELSE << >>))

\* a reasoning child that leaves the configured value out
UnconfiguredInference(sg, violation, predicate, before, after) ==
    LET configured == LastObject(sg, violation.shape_id, predicate)
    IN  IF configured # << >>
        THEN <<Inference(before \o after)>>
        ELSE << >>

\* the reasoning child of a branch that reads one configured value of the
\* shape: added only when the value is found (and not empty)
ConfiguredInference(sg, violation, predicate, before, after) ==
    LET configured == LastObject(sg, violation.shape_id, predicate)
    IN  IF configured # << >>
        THEN <<Inference(before \o configured \o after)>>
        ELSE << >>

\* the same, with the value passed through _format_uri
FormattedInference(sg, violation, predicate, before, after) ==
    LET configured == LastObject(sg, violation.shape_id, predicate)
    IN  IF configured # << >>
        THEN <<Inference(before \o format_uri(configured) \o after)>>
        ELSE << >>

build_value_type_justification(dg, sg, violation) ==
    LET property_path == IF Truthy(violation.property_path)
                         THEN violation.property_path.s
                         ELSE <<"this node">>
        value == violation.value
        class_of_node == ~Truthy(value)
                         /\ Contains(violation.constraint_id, "ClassConstraintComponent")
        observation ==
            IF class_of_node
            THEN JustificationNode("observation",
                     <<"The node ">> \o format_uri(<<violation.focus_node>>)
                     \o <<" is not an instance of the required class">>,
                     generate_type_evidence(dg, violation.focus_node))
            ELSE JustificationNode("observation",
                     <<"The value ">> \o format_uri(value.s) \o <<" for property ">>
                     \o format_uri(property_path) \o <<" of node ">>
                     \o format_uri(<<violation.focus_node>>)
                     \o <<" has an incompatible type">>,
                     generate_data_evidence(dg, violation.focus_node, property_path))
        reasoning ==
            IF Contains(violation.constraint_id, "DatatypeConstraintComponent")
            THEN FormattedInference(sg, violation, SH("datatype"),
                     <<"The value does not match the required datatype ">>, << >>)
            ELSE IF Contains(violation.constraint_id, "ClassConstraintComponent")
            THEN FormattedInference(sg, violation, SH("ClassConstraintComponent"),
                     <<"The value is not an instance of the required class ">>, << >>)
            ELSE << >>
    IN  IF ~class_of_node /\ value.kind = "none"
        THEN Raised("AttributeError")     \* _format_uri(None)
        ELSE Built(<<Premise(sg, violation), observation>> \o reasoning)

build_value_range_justification(dg, sg, violation) ==
    IF ~Truthy(violation.property_path)
    THEN Built(<<JustificationNode("error",
                   <<"Missing property path information for value range constraint">>,
                   None)>>)
    ELSE
    LET property_path == violation.property_path.s
        observation ==
            JustificationNode("observation",
                <<"The data shows that property ">> \o format_uri(property_path)
                \o <<" of node ">> \o format_uri(<<violation.focus_node>>)
                \o <<" has value ">> \o PyStr(violation.value),
                generate_data_evidence(dg, violation.focus_node, property_path))
        minimum == <<"The value provided does not comply with the minimum value restriction ">>
        maximum == <<"The value provided does not comply with the maximum value restriction ">>
        reasoning ==
            IF Contains(violation.constraint_id, "MinExclusiveConstraintComponent")
            THEN ConfiguredInference(sg, violation, SH("minExclusive"), minimum, << >>)
            ELSE IF Contains(violation.constraint_id, "MinInclusiveConstraintComponent")
            THEN ConfiguredInference(sg, violation, SH("minInclusive"), minimum, << >>)
            ELSE IF Contains(violation.constraint_id, "MaxExclusiveConstraintComponent")
            THEN ConfiguredInference(sg, violation, SH("maxExclusive"), maximum, << >>)
            ELSE IF Contains(violation.constraint_id, "MaxInclusiveConstraintComponent")
            THEN ConfiguredInference(sg, violation, SH("maxInclusive"), maximum, << >>)
            ELSE << >>
    IN  Built(<<Premise(sg, violation), observation>> \o reasoning)

\* the observation of the pattern and property pair branches
ValueObservation(dg, violation) ==
    IF Truthy(violation.property_path) /\ Truthy(violation.value)
    THEN <<JustificationNode("observation",
              <<"The data shows that node ">> \o format_uri(<<violation.focus_node>>)
              \o <<" has value ">> \o violation.value.s \o <<" for property ">>
              \o format_uri(violation.property_path.s) \o <<".">>,
              generate_data_evidence(dg, violation.focus_node,
                                     violation.property_path.s))>>
    ELSE << >>

build_pattern_justification(dg, sg, violation) ==
    Built(<<Premise(sg, violation)>> \o ValueObservation(dg, violation) \o
          (IF Contains(violation.constraint_id, "PatternConstraintComponent")
           THEN ConfiguredInference(sg, violation, SH("pattern"),
                    <<"The value provided does not comply with the pattern ">>, <<".">>)
                \o ConfiguredInference(sg, violation, SH("flags"),
                    <<"The pattern uses flags ">>, <<".">>)
           ELSE << >>))

\* the second definition of _build_property_pair_justification (the one in
\* effect): the reasoning formats the property path, which raises
\* AttributeError when there is none
PairInference(sg, violation, predicate, before, between, after) ==
    LET paired == LastObject(sg, violation.shape_id, predicate)
    IN  IF paired = << >> THEN Built(<< >>)
        ELSE IF violation.property_path.kind = "none" THEN Raised("AttributeError")
        ELSE Built(<<Inference(before \o format_uri(violation.property_path.s)
                               \o between \o format_uri(paired) \o after)>>)

build_property_pair_justification(dg, sg, violation) ==
    LET reasoning ==
            IF Contains(violation.constraint_id, "EqualsConstraintComponent")
            THEN PairInference(sg, violation, SH("equals"),
                     <<"The shape states that property ">>,
                     <<" must have the same values as ">>, <<".">>)
            ELSE IF Contains(violation.constraint_id, "DisjointConstraintComponent")
            THEN PairInference(sg, violation, SH("disjoint"),
                     <<"The shape states that property ">>,
                     <<" must not have any of the same values as ">>, <<".">>)
            ELSE IF Contains(violation.constraint_id, "LessThanConstraintComponent")
            THEN PairInference(sg, violation, SH("lessThan"),
                     <<"The shape states that the value of property ">>,
                     <<" must be less than the value of ">>, <<".">>)
            ELSE IF Contains(violation.constraint_id, "LessThanOrEqualsConstraintComponent")
            THEN PairInference(sg, violation, SH("lessThanOrEquals"),
                     <<"The shape states that the value of property ">>,
                     <<" must be less than or equal to the value of ">>, <<".">>)
            ELSE Built(<< >>)
    IN  IF reasoning.raised THEN reasoning
        ELSE Built(<<Premise(sg, violation)>> \o ValueObservation(dg, violation)
                   \o reasoning.children)

\* a logical branch binds its shape only inside the loop over the matching
\* triples: with no match the name is unbound when the reasoning reads it
LogicalInference(sg, violation, predicate, before, between) ==
    LET matches == Objects(sg, violation.shape_id, predicate)
        bound == matches[Len(matches)]
    IN  IF matches = << >> THEN Raised("UnboundLocalError")
        ELSE Built(<<Inference(<<"The shape ">> \o format_uri(<<violation.shape_id>>)
                               \o before \o format_uri(bound)
                               \o between \o format_uri(bound))>>)

build_logical_justification(dg, sg, violation) ==
    LET reasoning ==
            IF Contains(violation.constraint_id, "NotConstraintComponent")
            THEN LogicalInference(sg, violation, SH("NotConstraintComponent"),
                     <<" includes a negation of the shape ">>,
                     <<". This means that, for the resource to be valid, it cannot comply with the rules of the shape ">>)
            ELSE IF Contains(violation.constraint_id, "AndConstraintComponent")
            THEN LogicalInference(sg, violation, SH("AndConstraintComponent"),
                     <<" includes a conjunction of the shapes listed in ">>,
                     <<". This means that, for the resource to be valid, it must comply with all rules of the shapes listed in ">>)
            ELSE IF Contains(violation.constraint_id, "OrConstraintComponent")
            THEN LogicalInference(sg, violation, SH("OrConstraintComponent"),
                     <<" includes a disjunction of the shapes listed in ">>,
                     <<". This means that, for the resource to be valid, it must comply with at least one of the shapes listed in ">>)
            ELSE IF Contains(violation.constraint_id, "XoneConstraintComponent")
            THEN LogicalInference(sg, violation, SH("XoneConstraintComponent"),
                     <<" includes an exclusive disjunction of the shapes listed in ">>,
                     <<". This means that, for the resource to be valid, it must comply with exactly one of the shapes listed in ">>)
            ELSE Built(<< >>)
    IN  IF reasoning.raised THEN reasoning
        ELSE Built(<<Premise(sg, violation)>> \o reasoning.children)

\* the generic branch without the "or 'Unknown violation'" default
build_generic_justification_raw(violation) ==
    Built(<<JustificationNode("unknown",
              <<"Generic justification for violation: ">> \o PyStr(violation.message),
              None)>>)

build_generic_justification(violation) ==
    Built(<<JustificationNode("unknown",
              <<"Generic justification for violation: ">>
              \o (IF Truthy(violation.message) THEN violation.message.s
                  ELSE <<"Unknown violation">>),
              None)>>)

JustificationTree(root, violation) == [root |-> root, violation |-> violation]

NoTree ==
    JustificationTree([type |-> "", statement |-> << >>, children |-> << >>],
                      NoViolation)

\* build_justification_tree: the tree, or the exception of the branch
build_justification_tree(dg, sg, violation) ==
    LET root_statement ==
            <<"Node ">> \o format_uri(<<violation.focus_node>>)
            \o <<" fails to conform to shape ">> \o format_uri(<<violation.shape_id>>)
        vt == violation.violation_type
        branch ==
            IF vt = Enum("CARDINALITY") THEN build_cardinality_justification(dg, sg, violation)
            ELSE IF vt = Enum("VALUE_TYPE") THEN build_value_type_justification(dg, sg, violation)
            ELSE IF vt = Enum("VALUE_RANGE") THEN build_value_range_justification(dg, sg, violation)
            ELSE IF vt = Enum("PATTERN") THEN build_pattern_justification(dg, sg, violation)
            ELSE IF vt = Enum("PROPERTY_PAIR") THEN build_property_pair_justification(dg, sg, violation)
            ELSE IF vt = Enum("LOGICAL") THEN build_logical_justification(dg, sg, violation)
            ELSE build_generic_justification(violation)
    IN  [raised |-> branch.raised, exc |-> branch.exc,
         tree |-> IF branch.raised THEN NoTree
                  ELSE JustificationTree([type |-> "conclusion",
                                          statement |-> root_statement,
                                          children |-> branch.children],
                                         violation)]

NoOutcome == [raised |-> FALSE, exc |-> "", tree |-> NoTree]

JTIdle ==
    /\ jt_pc = "off" /\ jt_violation = NoViolation /\ jt_outcome = NoOutcome

GraphsIdle == shapes_graph = << >> /\ data_graph = << >>

GenIdle ==
    /\ gen_pc = "off" /\ gen_local = FALSE /\ gen_message = None
    /\ gen_languages = << >> /\ gen_oracle = << >>
    /\ gen_prompts = << >> /\ gen_output = << >>

NoResult == [severity |-> None, value |-> None]

CtxIdle ==
    /\ ctx_pc = "off" /\ ctx_violation = NoViolation /\ ctx_result = NoResult
    /\ ctx_outcome = NoViolation

MainIdle ==
    /\ pc = "off" /\ run = 0 /\ input_report = FALSE /\ local = FALSE
    /\ violations = << >> /\ languages = << >>
    /\ violations_by_signature = << >> /\ explanations_by_signature = << >>
    /\ llm_calls = << >> /\ final_explanations_output = << >>
    /\ cache_at_start = EmptyGraph /\ cache_log = << >>

---------------------------------------------------------------------------
(* SpecKG: the cache operations, called in any order on one knowledge     *)
(* graph file.                                                             *)

Languages == {"en", "de"}

KGSigs ==
    {Signature(Str(MinCountIRI), Str(<<"a">>), Enum("CARDINALITY"),
               <<<<"minCount", "1">>>>),
     Signature(Str(<<"a">>), None, Enum("OTHER"), << >>)}

Audited(nle, cs, model) ==
    ExplanationOutput(nle, cs, Str(<<model>>), Str(<<"violation">>),
                      Str(<<"tree">>), Str(<<"context">>))

\* the records put: as the tests make them (text and a list of suggestions
\* only), as main.py makes them from the remote generator (one combined
\* str) and from the local generator (a one-element list), with an empty
\* text, and with empty suggestions
ExplPool ==
    {ExplanationOutput(<<"x">>, ListOf(<< <<"x">> >>), None, None, None, None),
     Audited(<<"y">>, ListOf(<< >>), "m1"),
     Audited(<<"x">>, StrOf(<<"x">>), "m2"),
     Audited(<<"y">>, ListOf(<< <<"x", NL, NL, "y">> >>), "m1"),
     Audited(<< >>, StrOf(<<"x">>), "m1"),
     Audited(<<"y">>, StrOf(<<"x", NL, NL, "y">>), "m2")}

\* a file at kg_path whose JSON literals were cut short
CorruptLiteral == <<"{", "viol">>
Corrupted(file) ==
    [file EXCEPT !.json = {<<j[1], j[2], CorruptLiteral>> : j \in @}]

\* the file at kg_path when the store is made: none, or one left by an
\* earlier run and damaged since
KGFiles ==
    {EmptyGraph,
     Corrupted(save_kg(add_violation(EmptyGraph,
                 Signature(Str(<<"a">>), None, Enum("OTHER"), << >>),
                 Audited(<<"stored">>, StrOf(<<"s">>), "m1"), "en")))}

KGOp(op, sig, language, explanation, before, changed) ==
    [op |-> op, sig |-> sig, language |-> language, explanation |-> explanation,
     before |-> before, changed |-> changed]

NoOp == KGOp("none", NoSignature, "", Absent_Explanation.value,
             Absent_Explanation, FALSE)

KGIdle == graph = EmptyGraph /\ disk = EmptyGraph /\ kg_op = NoOp /\ kg_ops = 0

SigIdle ==
    /\ sig_pc = "off" /\ violA = NoViolation /\ violB = NoViolation
    /\ sigA = NoSignature /\ sigB = NoSignature
    /\ uriA = << >> /\ uriB = << >> /\ sigEq = FALSE

KGInit ==
    /\ SigIdle /\ JTIdle /\ GraphsIdle /\ MainIdle /\ GenIdle /\ CtxIdle
    /\ disk \in KGFiles
    /\ graph = load_kg(disk)
    /\ kg_op = NoOp
    /\ kg_ops = 0

\* add_violation(sig, explanation, language); kg_op keeps what
\* get_explanation returned for the pair just before
KG_AddViolation ==
    /\ kg_ops < MaxOps
    /\ \E sig \in KGSigs, language \in Languages, explanation \in ExplPool :
        /\ graph' = add_violation(graph, sig, explanation, language)
        /\ kg_op' = KGOp("add", sig, language, explanation,
                         get_explanation(graph, sig, language),
                         graph' # graph)
    /\ kg_ops' = kg_ops + 1
    /\ UNCHANGED <<disk, sig_vars, jt_vars, main_vars, gen_vars, ctx_vars>>

KG_SaveKg ==
    /\ kg_ops < MaxOps
    /\ disk' = save_kg(graph)
    /\ kg_op' = [NoOp EXCEPT !.op = "save"]
    /\ kg_ops' = kg_ops + 1
    /\ UNCHANGED <<graph, sig_vars, jt_vars, main_vars, gen_vars, ctx_vars>>

\* load_kg(), or a new ViolationKnowledgeGraph made on the same file
KG_LoadKg ==
    /\ kg_ops < MaxOps
    /\ graph' = load_kg(disk)
    /\ kg_op' = [NoOp EXCEPT !.op = "load", !.changed = graph' # graph]
    /\ kg_ops' = kg_ops + 1
    /\ UNCHANGED <<disk, sig_vars, jt_vars, main_vars, gen_vars, ctx_vars>>

\* clear(): a new empty graph, saved at once
KG_Clear ==
    /\ kg_ops < MaxOps
    /\ graph' = clear(graph)
    /\ disk' = save_kg(graph')
    /\ kg_op' = [NoOp EXCEPT !.op = "clear", !.changed = graph' # graph]
    /\ kg_ops' = kg_ops + 1
    /\ UNCHANGED <<sig_vars, jt_vars, main_vars, gen_vars, ctx_vars>>

KGNext == KG_AddViolation \/ KG_SaveKg \/ KG_LoadKg \/ KG_Clear

SpecKG == KGInit /\ [][KGNext]_vars

---------------------------------------------------------------------------
(* The pipeline coordinator (main.py)                                      *)

\* the hash left commented out in violation_signature.py (lines 20-22),
\* over the sorted items of constraint_params: it does not raise
canonical_hash_raises(sig) == FALSE

\* hash(signature): the dataclass hashes the tuple of its fields, and the
\* constraint_params field is a dict, which has no hash -- TypeError
ViolationSignature_hash_raises(sig) == IsDict(sig.constraint_params)

\* a dict keyed by signatures, as a sequence of <<signature, value>>
SigDictIndex(d, signature) ==
    {i \in 1..Len(d) : ViolationSignature_eq(d[i][1], signature)}

\* lines 141-150: a violation whose signature cannot be used as a key is
\* logged and skipped
RECURSIVE GroupViolations(_, _)
GroupViolations(vs, by_signature) ==
    IF vs = << >> THEN by_signature
    ELSE
    LET violation == Head(vs)
        signature == create_violation_signature(violation)
        at == SigDictIndex(by_signature, signature)
        grouped ==
            IF ViolationSignature_hash_raises(signature) THEN by_signature
            ELSE IF at = {} THEN Append(by_signature, <<signature, <<violation>>>>)
            ELSE LET i == CHOOSE i \in at : TRUE
                 IN  [by_signature EXCEPT ![i] = <<signature, Append(@[2], violation)>>]
    IN  GroupViolations(Tail(vs), grouped)

\* what the backend answers to one request
Responses == {"text", "empty", "failure"}

\* --model (default) and the model of the local generator
ModelName == "gpt-4o-mini-2024-07-18"
LocalModelName == "gemma:2b"

\* ExplanationGenerator (remote): a failure becomes the text; the
\* suggestions are one combined str
RemoteExplanation(response, lang) ==
    IF response = "text"
    THEN Audited(<<"explanation ", lang>>, StrOf(<<"1. a", NL, NL, "2. b">>),
                 ModelName)
    ELSE IF response = "empty"
    THEN Audited(<< >>, StrOf(<<"No suggestions generated.">>), ModelName)
    ELSE Audited(<<"Error generating explanation in ", lang, ": ", "timeout">>,
                 StrOf(<<"Error generating correction suggestions in ", lang, ": ",
                         "timeout">>),
                 ModelName)

\* LocalExplanationGenerator: the suggestions are a one-element list; a
\* failure is an exception (see generate_raises)
LocalExplanation(response, lang) ==
    IF response = "text"
    THEN Audited(<<"explanation ", lang>>, ListOf(<< <<"1. a", NL, NL, "2. b">> >>),
                 LocalModelName)
    ELSE Audited(<< >>, ListOf(<< << >> >>), LocalModelName)

\* the remote generator catches every exception of the backend call; the
\* local generator has no handler, the exception of ollama.chat leaves it
generate_raises(use_local, response) == use_local /\ response = "failure"

generate_explanation_output(use_local, response, lang) ==
    IF use_local THEN LocalExplanation(response, lang)
    ELSE RemoteExplanation(response, lang)

\* the state threaded through the loop over the signatures
Progress(g, explanations, calls, crashed) ==
    [graph |-> g, explanations |-> explanations, calls |-> calls, crashed |-> crashed]

\* lines 179-186: the languages with a cached record, and those without
CacheHits(g, signature, langs) ==
    SelectSeq(langs, LAMBDA l : get_explanation(g, signature, l).found)
CacheMisses(g, signature, langs) ==
    SelectSeq(langs, LAMBDA l : ~get_explanation(g, signature, l).found)

\* lines 197-208: each generated explanation is put into the graph
RECURSIVE StoreGenerated(_, _, _, _, _, _)
StoreGenerated(g, signature, k, langs, use_local, oracle) ==
    IF langs = << >> THEN g
    ELSE StoreGenerated(
             add_violation(g, signature,
                 generate_explanation_output(use_local, oracle[<<k, Head(langs)>>], Head(langs)),
                 Head(langs)),
             signature, k, Tail(langs), use_local, oracle)

\* lines 160-211 for the k-th signature
ProcessSignature(st, k, entry, langs, use_local, oracle, dg, sg) ==
    LET signature == entry[1]
        representative_violation == entry[2][1]
        jt == build_justification_tree(dg, sg, representative_violation)
        hits == CacheHits(st.graph, signature, langs)
        languages_to_generate == CacheMisses(st.graph, signature, langs)
        local_raises ==
            \E i \in 1..Len(languages_to_generate) :
                generate_raises(use_local, oracle[<<k, languages_to_generate[i]>>])
        language_explanations ==
            [i \in 1..Len(hits) |->
                <<hits[i], get_explanation(st.graph, signature, hits[i]).value>>]
            \o [i \in 1..Len(languages_to_generate) |->
                <<languages_to_generate[i],
                  generate_explanation_output(use_local,
                      oracle[<<k, languages_to_generate[i]>>],
                      languages_to_generate[i])>>]
    IN  IF st.crashed THEN st
        ELSE IF jt.raised \/ local_raises
        THEN [st EXCEPT !.crashed = TRUE]
        ELSE Progress(
                 StoreGenerated(st.graph, signature, k, languages_to_generate,
                                use_local, oracle),
                 Append(st.explanations, <<signature, language_explanations>>),
                 st.calls \o [i \in 1..Len(languages_to_generate) |->
                                 <<signature, languages_to_generate[i],
                                   oracle[<<k, languages_to_generate[i]>>]>>],
                 FALSE)

\* lines 159-211
RECURSIVE ProcessSignatures(_, _, _, _, _, _, _, _)
ProcessSignatures(st, k, by_signature, langs, use_local, oracle, dg, sg) ==
    IF k > Len(by_signature) THEN st
    ELSE ProcessSignatures(
             ProcessSignature(st, k, by_signature[k], langs, use_local, oracle, dg, sg),
             k + 1, by_signature, langs, use_local, oracle, dg, sg)

\* ExplanationOutput.to_dict: the texts of the record
to_dict(expl_output) ==
    [natural_language_explanation |-> expl_output.natural_language_explanation,
     correction_suggestions |-> expl_output.correction_suggestions,
     provided_by_model |-> expl_output.provided_by_model]

\* lines 223-246: an entry for each violation whose signature has
\* explanations; a violation whose lookup raises is logged and skipped
RECURSIVE Reconstruct(_, _)
Reconstruct(vs, explanations) ==
    IF vs = << >> THEN << >>
    ELSE
    LET violation == Head(vs)
        signature == create_violation_signature(violation)
        at == SigDictIndex(explanations, signature)
        explanation_map_for_sig ==
            IF at = {} THEN << >> ELSE explanations[CHOOSE i \in at : TRUE][2]
        entry ==
            [focus_node |-> violation.focus_node,
             explanation |-> [i \in 1..Len(explanation_map_for_sig) |->
                                <<explanation_map_for_sig[i][1],
                                  to_dict(explanation_map_for_sig[i][2])>>]]
    IN  (IF ViolationSignature_hash_raises(signature) \/ explanation_map_for_sig = << >>
         THEN << >> ELSE <<entry>>)
        \o Reconstruct(Tail(vs), explanations)

---------------------------------------------------------------------------
(* SpecSig: two signatures, given directly or made by the factory from two *)
(* violations, are compared and turned into cache keys.                    *)

SigConstraintIds == {Str(<<"a">>), Str(<<"a", "|">>)}
SigPaths == {None} \cup {Str(s) : s \in StringsUpTo({"a", "|"}, MaxLen)}
SigTypes == {None, Str(<< >>), Enum("CARDINALITY")}

\* every dict over the first two keys with at most MaxParams entries
RECURSIVE DictsUpTo(_)
DictsUpTo(n) ==
    IF n = 0 THEN {<< >>}
    ELSE LET shorter == DictsUpTo(n - 1)
         IN  shorter \cup
             {Append(d, <<k, v>>) : d \in shorter, k \in {"k1", "k2"}, v \in ParamVals}

SigParams == {d \in DictsUpTo(MaxParams) : IsDict(d)}

SigPool == {Signature(c, p, t, d) :
                c \in SigConstraintIds, p \in SigPaths, t \in SigTypes, d \in SigParams}

ViolationPool ==
    {Violation(fn, sh, cid, vt, pp, val, msg, sev, ctx) :
        ctx \in {EmptyContext,
                 [minCount |-> 2, maxCount |-> Absent, actualCount |-> 0]},
        fn \in {"ex:n1", "ex:n2"}, sh \in {"ex:S1", "ex:S2"},
        cid \in {Str(MinCountIRI), Str(<<"a">>), None},
        vt \in {Enum("CARDINALITY"), Enum("OTHER")},
        pp \in {None, Str(<<"a">>)},
        val \in {None, Str(<<"a">>)},
        msg \in {None, Str(<<"a">>)},
        sev \in {"Violation", "Warning"}}

SigInit ==
    /\ KGIdle /\ JTIdle /\ GraphsIdle /\ MainIdle /\ GenIdle /\ CtxIdle
    /\ uriA = << >> /\ uriB = << >> /\ sigEq = FALSE
    /\ \/ /\ sig_pc = "viol"
          /\ violA \in ViolationPool /\ violB \in ViolationPool
          /\ sigA = NoSignature /\ sigB = NoSignature
       \/ /\ sig_pc = "sig"
          /\ violA = NoViolation /\ violB = NoViolation
          /\ sigA \in SigPool /\ sigB \in SigPool

\* main.py line 143: the factory is applied to each violation
CreateSignatures ==
    /\ sig_pc = "viol"
    /\ sigA' = create_violation_signature(violA)
    /\ sigB' = create_violation_signature(violB)
    /\ sig_pc' = "sig"
    /\ UNCHANGED <<violA, violB, uriA, uriB, sigEq, kg_vars, jt_vars, main_vars, gen_vars, ctx_vars>>

\* the signatures are compared (==) and each is given its cache key
SignatureToUri ==
    /\ sig_pc = "sig"
    /\ uriA' = signature_to_uri(sigA)
    /\ uriB' = signature_to_uri(sigB)
    /\ sigEq' = ViolationSignature_eq(sigA, sigB)
    /\ sig_pc' = "uri"
    /\ UNCHANGED <<violA, violB, sigA, sigB, kg_vars, jt_vars, main_vars, gen_vars, ctx_vars>>

SigNext == CreateSignatures \/ SignatureToUri

SpecSig == SigInit /\ [][SigNext]_vars

---------------------------------------------------------------------------
(* SpecJT: one violation, a shapes graph and a data graph are given to the *)
(* tree builder.                                                           *)

ViolationTypes ==
    {Enum(n) : n \in {"CARDINALITY", "VALUE_TYPE", "VALUE_RANGE", "PATTERN",
                      "PROPERTY_PAIR", "LOGICAL", "OTHER"}}

JTConstraintIds ==
    {Str(SH(n)) : n \in {"MinCountConstraintComponent", "MaxCountConstraintComponent",
                         "DatatypeConstraintComponent", "ClassConstraintComponent",
                         "MinExclusiveConstraintComponent", "MinInclusiveConstraintComponent",
                         "MaxInclusiveConstraintComponent",
                         "PatternConstraintComponent", "EqualsConstraintComponent",
                         "LessThanConstraintComponent", "NotConstraintComponent",
                         "AndConstraintComponent"}}
    \cup {Str(<<"ex:custom">>)}

ExP == <<"http://", "example.org/p">>
ExQ == <<"http://", "example.org/q">>

JTContexts ==
    {EmptyContext, [minCount |-> 1, maxCount |-> 1, actualCount |-> 0]}

\* the members of the taxonomy, and None for a type that is not one
JTTypes == ViolationTypes \cup {None}

JTViolations ==
    {Violation("ex:n1", "ex:S1", cid, vt, pp, val, msg, "Violation", ctx) :
        cid \in JTConstraintIds, vt \in JTTypes,
        pp \in {None, Str(ExP)}, val \in {None, Str(<<"v">>)},
        msg \in {None, Str(<<"m">>)}, ctx \in JTContexts}

\* shapes graphs: none of the shape's triples; the triples a shapes file
\* has (sh:minCount, sh:datatype twice, the four range bounds, sh:pattern,
\* sh:flags, sh:equals, sh:class, sh:not); and triples whose predicate is the
\* constraint component itself
ShapesGraphs ==
    {<< >>,
     <<Triple("ex:S1", SH("minCount"), <<"1">>),
       Triple("ex:S1", SH("datatype"), <<"xsd:integer">>),
       Triple("ex:S1", SH("datatype"), <<"xsd:string">>),
       Triple("ex:S1", SH("minExclusive"), <<"5">>),
       Triple("ex:S1", SH("minInclusive"), <<"5">>),
       Triple("ex:S1", SH("maxExclusive"), <<"5">>),
       Triple("ex:S1", SH("maxInclusive"), <<"5">>),
       Triple("ex:S1", SH("pattern"), <<"^a">>),
       Triple("ex:S1", SH("flags"), <<"i">>),
       Triple("ex:S1", SH("equals"), ExQ),
       Triple("ex:S1", SH("class"), <<"ex:C">>),
       Triple("ex:S1", SH("not"), <<"ex:S2">>)>>,
     <<Triple("ex:S1", SH("NotConstraintComponent"), <<"ex:S2">>),
       Triple("ex:S1", SH("MinCountConstraintComponent"), <<"1">>),
       Triple("ex:S2", SH("AndConstraintComponent"), <<"ex:list">>)>>}

DataGraphs ==
    {<< >>,
     <<Triple("ex:n1", ExP, <<"v">>), Triple("ex:n1", ExP, <<"w">>),
       Triple("ex:n1", RdfType, <<"ex:C">>)>>}

JTInit ==
    /\ SigIdle /\ KGIdle /\ MainIdle /\ GenIdle /\ CtxIdle
    /\ jt_pc = "input"
    /\ jt_violation \in JTViolations
    /\ shapes_graph \in ShapesGraphs
    /\ data_graph \in DataGraphs
    /\ jt_outcome = NoOutcome

\* build_justification_tree(violation)
JT_Build ==
    /\ jt_pc = "input"
    /\ jt_outcome' = build_justification_tree(data_graph, shapes_graph, jt_violation)
    /\ jt_pc' = "built"
    /\ UNCHANGED <<jt_violation, shapes_graph, data_graph, sig_vars, kg_vars, main_vars,
                   gen_vars, ctx_vars>>

JTNext == JT_Build

SpecJT == JTInit /\ [][JTNext]_vars

---------------------------------------------------------------------------
(* Spec: runs of the pipeline, one after the other, on the same inputs and *)
(* the same knowledge-graph file.                                          *)

MainViolations ==
    {Violation("ex:n1", "ex:S1", Str(MinCountIRI), Enum("CARDINALITY"),
               Str(ExP), None, Str(<<"m">>), "Violation", EmptyContext),
     Violation("ex:n2", "ex:S1", Str(MinCountIRI), Enum("CARDINALITY"),
               Str(ExP), None, Str(<<"m">>), "Violation", EmptyContext),
     Violation("ex:n1", "ex:S1", Str(SH("PatternConstraintComponent")), Enum("PATTERN"),
               Str(ExQ), Str(<<"v">>), None, "Violation", EmptyContext),
     Violation("ex:n2", "ex:S1", Str(SH("NotConstraintComponent")), Enum("LOGICAL"),
               None, None, None, "Violation", EmptyContext)}

RECURSIVE ListsUpTo(_, _)
ListsUpTo(A, n) ==
    IF n = 0 THEN {<< >>}
    ELSE LET shorter == ListsUpTo(A, n - 1)
         IN  shorter \cup {Append(l, a) : l \in shorter, a \in A}

\* --language: one language, or two in either order
LanguageLists == {<<"en">>, <<"de">>, <<"en", "de">>, <<"de", "en">>}

\* the file at kg_path before the first run: none, or one that holds an
\* English record of the first signature
StoredFiles ==
    {EmptyGraph,
     save_kg(add_violation(EmptyGraph,
                 create_violation_signature(
                     Violation("ex:n0", "ex:S1", Str(MinCountIRI), Enum("CARDINALITY"),
                               Str(ExP), None, None, "Violation", EmptyContext)),
                 Audited(<<"stored">>, StrOf(<<"s">>), ModelName), "en"))}

Init ==
    /\ SigIdle /\ JTIdle /\ GenIdle /\ CtxIdle
    /\ kg_op = NoOp /\ kg_ops = 0
    /\ shapes_graph \in ShapesGraphs
    /\ data_graph = << >>
    /\ pc = "start" /\ run = 1
    /\ input_report \in BOOLEAN
    /\ local \in BOOLEAN
    /\ violations \in ListsUpTo(MainViolations, MaxViolations)
    /\ languages \in LanguageLists
    /\ disk \in StoredFiles
    /\ graph = load_kg(disk)
    /\ cache_at_start = graph
    /\ cache_log = << >>
    /\ violations_by_signature = << >> /\ explanations_by_signature = << >>
    /\ llm_calls = << >> /\ final_explanations_output = << >>

\* line 207: one add_violation for each generated (signature, language)
LogPuts(log, generated) == log \o [i \in 1..Len(generated) |-> "put"]

\* the log of a run that does not make the call of line 215
LogNoSave(log) == log

\* line 215: violation_kg.save_kg()
LogSave(log) == Append(log, "save")

main_inputs == <<run, input_report, local, violations, languages, cache_at_start>>
main_frame == <<sig_vars, jt_vars, gen_vars, ctx_vars, kg_op, kg_ops>>

\* lines 75-136: the violations are read from the report given by
\* --input_report; without it the validation is run and its log line reads
\* the undefined name validation_start_time (NameError, exit status 1).
\* With no violation the run ends at once.
M_Violations ==
    /\ pc = "start"
    /\ pc' = IF ~input_report THEN "exit1"
             ELSE IF violations = << >> THEN "exit0"
             ELSE "violations"
    /\ UNCHANGED <<main_inputs, main_frame, graph, disk, violations_by_signature,
                   explanations_by_signature, llm_calls, final_explanations_output,
                   cache_log>>

\* lines 139-151
M_Group ==
    /\ pc = "violations"
    /\ violations_by_signature' = GroupViolations(violations, << >>)
    /\ pc' = "grouped"
    /\ UNCHANGED <<main_inputs, main_frame, graph, disk,
                   explanations_by_signature, llm_calls, final_explanations_output,
                   cache_log>>

\* lines 154-211: every signature is processed; the backend's answers are
\* the oracle.  An exception of the tree builder or of the local generator
\* is not caught: the process ends with nothing saved.
M_Process ==
    /\ pc = "grouped"
    /\ \E oracle \in [(1..Len(violations_by_signature))
                      \X {languages[i] : i \in 1..Len(languages)} -> Responses] :
        LET st == ProcessSignatures(Progress(graph, << >>, << >>, FALSE), 1,
                                    violations_by_signature, languages, local,
                                    oracle, data_graph, shapes_graph)
        IN  /\ pc' = IF st.crashed THEN "crashed" ELSE "processed"
            /\ graph' = st.graph
            /\ explanations_by_signature' = st.explanations
            /\ llm_calls' = st.calls
            /\ cache_log' = LogPuts(cache_log, st.calls)
    /\ UNCHANGED <<main_inputs, main_frame, disk, violations_by_signature,
                   final_explanations_output>>

\* line 215
M_Save ==
    /\ pc = "processed"
    /\ disk' = save_kg(graph)
    /\ cache_log' = LogSave(cache_log)
    /\ pc' = "saved"
    /\ UNCHANGED <<main_inputs, main_frame, graph, violations_by_signature,
                   explanations_by_signature, llm_calls, final_explanations_output>>

\* lines 222-264
M_Reconstruct ==
    /\ pc = "saved"
    /\ final_explanations_output' = Reconstruct(violations, explanations_by_signature)
    /\ pc' = "done"
    /\ UNCHANGED <<main_inputs, main_frame, graph, disk, violations_by_signature,
                   explanations_by_signature, llm_calls, cache_log>>

\* the program is started again with the same arguments: a new process
\* that loads the file the last run saved (line 66)
M_NextRun ==
    /\ pc = "done"
    /\ run < MaxRuns
    /\ run' = run + 1
    /\ pc' = "start"
    /\ graph' = load_kg(disk)
    /\ cache_at_start' = graph'
    /\ violations_by_signature' = << >> /\ explanations_by_signature' = << >>
    /\ llm_calls' = << >> /\ final_explanations_output' = << >>
    /\ cache_log' = << >>
    /\ UNCHANGED <<input_report, local, violations, languages, disk, main_frame>>

Next ==
    M_Violations \/ M_Group \/ M_Process \/ M_Save \/ M_Reconstruct \/ M_NextRun

Spec == Init /\ [][Next]_vars

---------------------------------------------------------------------------
(* SpecGen: one call of generate_explanation_output, of the remote or of   *)
(* the local generator, for a list of languages.                           *)

\* the prompt of the explanation request (its first sentence)
ExplanationPrompt(message, lang) ==
    <<"Explain the following SHACL violation in ", lang, ": ">>
    \o (IF Truthy(message) THEN message.s ELSE <<"Unknown violation">>)

\* the languages asked before, and at, the first request that raises
RECURSIVE AskedLanguages(_, _, _)
AskedLanguages(use_local, langs, oracle) ==
    IF langs = << >> THEN << >>
    ELSE IF generate_raises(use_local, oracle[<<1, Head(langs)>>]) THEN <<Head(langs)>>
    ELSE <<Head(langs)>> \o AskedLanguages(use_local, Tail(langs), oracle)

GenInit ==
    /\ SigIdle /\ KGIdle /\ JTIdle /\ GraphsIdle /\ MainIdle /\ CtxIdle
    /\ gen_pc = "input"
    /\ gen_local \in BOOLEAN
    /\ gen_message \in {None, Str(<<"m">>)}
    /\ gen_languages \in LanguageLists
    /\ gen_oracle \in [{1} \X {gen_languages[i] : i \in 1..Len(gen_languages)}
                       -> Responses]
    /\ gen_prompts = << >>
    /\ gen_output = << >>

\* generate_explanation_output(violation, jt, context, languages)
Gen_Generate ==
    /\ gen_pc = "input"
    /\ LET asked == AskedLanguages(gen_local, gen_languages, gen_oracle)
           raises == \E i \in 1..Len(gen_languages) :
                        generate_raises(gen_local, gen_oracle[<<1, gen_languages[i]>>])
       IN  /\ gen_prompts' = [i \in 1..Len(asked) |->
                                 ExplanationPrompt(gen_message, asked[i])]
           /\ gen_pc' = IF raises THEN "raised" ELSE "returned"
           /\ gen_output' =
                 IF raises THEN << >>
                 ELSE [i \in 1..Len(gen_languages) |->
                         <<gen_languages[i],
                           generate_explanation_output(gen_local,
                               gen_oracle[<<1, gen_languages[i]>>], gen_languages[i])>>]
    /\ UNCHANGED <<gen_local, gen_message, gen_languages, gen_oracle,
                   sig_vars, kg_vars, jt_vars, main_vars, ctx_vars>>

GenNext == Gen_Generate

SpecGen == GenInit /\ [][GenNext]_vars

---------------------------------------------------------------------------
(* Claims about signatures and cache keys (checked under SpecSig) *)

SameTypeFields(a, b) ==
    /\ a.constraint_id = b.constraint_id
    /\ a.property_path = b.property_path
    /\ a.violation_type = b.violation_type

\* C6: two signatures with equal constraint_id, property_path and
\* violation_type whose constraint_params hold the same key/value pairs, in
\* whatever insertion order, compare equal and get the same cache key.
C6_PermutationInvariant ==
    (/\ sig_pc = "uri"
     /\ SameTypeFields(sigA, sigB)
     /\ DictEq(sigA.constraint_params, sigB.constraint_params))
    => (sigEq /\ uriA = uriB)

\* the same two pairs were inserted in opposite orders
C6_Witness ==
    /\ sig_pc = "uri"
    /\ SameTypeFields(sigA, sigB)
    /\ Len(sigA.constraint_params) = 2
    /\ sigA.constraint_params # sigB.constraint_params
    /\ DictEq(sigA.constraint_params, sigB.constraint_params)
    /\ sigEq /\ uriA = uriB

\* C7: the hashed text encodes the four fields unambiguously, so two
\* signatures that share a cache key are equal.
C7_KeyInjective ==
    (sig_pc = "uri" /\ uriA = uriB) => sigEq

\* a differs from b only in that field f is absent in a and "" in b
AbsentVersusEmpty(a, b, f) ==
    /\ a[f] = None /\ b[f] = Str(<< >>)
    /\ a.constraint_id = b.constraint_id
    /\ \A g \in {"property_path", "violation_type"} \ {f} : a[g] = b[g]
    /\ DictEq(a.constraint_params, b.constraint_params)

\* C9: a signature whose property_path (or violation_type) is absent and
\* one that has it as the empty string, equal otherwise, are unequal and
\* have different cache keys.
C9_AbsentDistinctFromEmpty ==
    (/\ sig_pc = "uri"
     /\ \E f \in {"property_path", "violation_type"} :
            AbsentVersusEmpty(sigA, sigB, f))
    => (~sigEq /\ uriA # uriB)

\* the fields of a violation that make up its type
SameViolationType(v, w) ==
    /\ v.constraint_id = w.constraint_id
    /\ v.property_path = w.property_path
    /\ v.violation_type = w.violation_type
    /\ v.context = w.context

\* C8: two violations that differ only in focus_node, shape_id, value,
\* message or severity get equal signatures and the same cache key.
C8_EntityIndependent ==
    (/\ sig_pc = "uri"
     /\ violA # NoViolation /\ violB # NoViolation
     /\ SameViolationType(violA, violB))
    => (sigEq /\ uriA = uriB)

\* every ignored field differs between the two violations
C8_Witness ==
    /\ sig_pc = "uri"
    /\ violA # NoViolation /\ violB # NoViolation
    /\ SameViolationType(violA, violB)
    /\ violA.focus_node # violB.focus_node
    /\ violA.shape_id # violB.shape_id
    /\ violA.value # violB.value
    /\ violA.message # violB.message
    /\ violA.severity # violB.severity
    /\ sigEq /\ uriA = uriB

---------------------------------------------------------------------------
(* Claims about the cache operations (checked under SpecKG) *)

\* the last operation was a put for a pair that already had a record
PutOnExisting == kg_op.op = "add" /\ kg_op.before.found

\* what get returns now for the pair of the last put
GetAfterPut == get_explanation(graph, kg_op.sig, kg_op.language)

\* C4 as claimed: a put for a (signature, language) pair that already has a
\* record is a no-op: the cache is unchanged and get returns the
\* first-written text, suggestions and provided_by model.
C4_PutOnExistingIsNoOp ==
    PutOnExisting =>
        /\ ~kg_op.changed
        /\ GetAfterPut = kg_op.before

\* C4 as amended: a put for a pair that already has a record never changes
\* the text get returns for the pair, nor its suggestions when the record
\* has any, nor its audit objects; the provided_by model becomes the model
\* of the put whenever the put gives one.
C4_FirstTextWins ==
    PutOnExisting =>
        LET old == kg_op.before.value
            new == GetAfterPut.value
            put == kg_op.explanation
        IN  /\ GetAfterPut.found
            /\ new.natural_language_explanation = old.natural_language_explanation
            /\ (old.correction_suggestions.items # << >>
                    => new.correction_suggestions = old.correction_suggestions)
            /\ new.violation = old.violation
            /\ new.justification_tree = old.justification_tree
            /\ new.retrieved_context = old.retrieved_context
            /\ new.provided_by_model =
                    IF Truthy(put.provided_by_model)
                    THEN put.provided_by_model ELSE old.provided_by_model

\* a second put offered another text, other suggestions and another model:
\* text and suggestions stayed, the model was replaced
C4_Witness ==
    /\ PutOnExisting
    /\ kg_op.before.value.correction_suggestions.items # << >>
    /\ kg_op.explanation.natural_language_explanation # << >>
    /\ kg_op.explanation.natural_language_explanation
            # kg_op.before.value.natural_language_explanation
    /\ Truthy(kg_op.before.value.provided_by_model)
    /\ Truthy(kg_op.explanation.provided_by_model)
    /\ kg_op.explanation.provided_by_model # kg_op.before.value.provided_by_model
    /\ GetAfterPut.value.natural_language_explanation
            = kg_op.before.value.natural_language_explanation
    /\ GetAfterPut.value.provided_by_model = kg_op.explanation.provided_by_model

\* C5 (the part within one cache instance): a record with a text, put for a
\* pair that had no record, is returned by get with the text and the
\* correction suggestions that were put.
C5_RoundTrip ==
    (/\ kg_op.op = "add"
     /\ ~kg_op.before.found
     /\ kg_op.explanation.natural_language_explanation # << >>)
    => /\ GetAfterPut.found
       /\ GetAfterPut.value.natural_language_explanation
            = kg_op.explanation.natural_language_explanation
       /\ GetAfterPut.value.correction_suggestions
            = kg_op.explanation.correction_suggestions

---------------------------------------------------------------------------
(* Claims about the tree builder (checked under SpecJT)                    *)

\* C10 (as stated): building never raises -- for every violation the
\* builder returns a tree whose root is of kind conclusion and whose
\* violation is the input violation
C10_BuildNeverRaises ==
    jt_pc = "built" =>
        /\ ~jt_outcome.raised
        /\ jt_outcome.tree.root.type = "conclusion"
        /\ jt_outcome.tree.violation = jt_violation

---------------------------------------------------------------------------
(* Claims about the pipeline (checked under Spec)                          *)

SameSignature(v, w) ==
    ViolationSignature_eq(create_violation_signature(v), create_violation_signature(w))

RequestedLanguages == {languages[i] : i \in 1..Len(languages)}

\* the backend invocations of this run for the signature of v and language l
CallsFor(v, l) ==
    {c \in 1..Len(llm_calls) :
        /\ ViolationSignature_eq(llm_calls[c][1], create_violation_signature(v))
        /\ llm_calls[c][2] = l}

\* C1 (as stated): a completed run has invoked the backend at most once per
\* signature and requested language, and its output has one entry per
\* violation instance, in order, each with the instance's focus node, and
\* instances of one signature hold the same explanation for each language
C1_Deduplication ==
    pc = "done" =>
        /\ \A i \in 1..Len(violations), l \in RequestedLanguages :
              Cardinality(CallsFor(violations[i], l)) <= 1
        /\ Len(final_explanations_output) = Len(violations)
        /\ \A i \in 1..Len(violations) :
              /\ final_explanations_output[i].focus_node = violations[i].focus_node
              /\ {final_explanations_output[i].explanation[k][1] :
                      k \in 1..Len(final_explanations_output[i].explanation)}
                 = RequestedLanguages
        /\ \A i, j \in 1..Len(violations) :
              SameSignature(violations[i], violations[j]) =>
                  final_explanations_output[i].explanation
                  = final_explanations_output[j].explanation

C3_GenerateExactlyTheMisses ==
    pc \in {"processed", "saved", "done"} =>
        \A i \in 1..Len(violations), l \in RequestedLanguages :
            LET signature == create_violation_signature(violations[i])
                cached == get_explanation(cache_at_start, signature, l)
            IN  IF cached.found
                THEN /\ CallsFor(violations[i], l) = {}
                     /\ pc = "done" =>
                            \E e \in 1..Len(final_explanations_output) :
                                LET entry == final_explanations_output[e]
                                IN  /\ entry.focus_node = violations[i].focus_node
                                    /\ \E k \in 1..Len(entry.explanation) :
                                          entry.explanation[k]
                                          = <<l, to_dict(cached.value)>>
                ELSE /\ CallsFor(violations[i], l) # {}
                     /\ get_explanation(graph, signature, l).found

---------------------------------------------------------------------------
(* Claims about the shape of the tree (checked under SpecJT)               *)

JTBuilt == jt_pc = "built" /\ ~jt_outcome.raised
JTChildren == jt_outcome.tree.root.children
JTChildTypes == [i \in 1..Len(JTChildren) |-> JTChildren[i].type]

BranchTypes ==
    {Enum(n) : n \in {"CARDINALITY", "VALUE_TYPE", "VALUE_RANGE", "PATTERN",
                      "PROPERTY_PAIR", "LOGICAL"}}

EndsInError ==
    JTChildren # << >> /\ JTChildren[Len(JTChildren)].type = "error"

\* one premise citing the shape, then observations, then at least one
\* inference
SharedShape(children, shape_id) ==
    /\ Len(children) >= 2
    /\ children[1].type = "premise"
    /\ children[1].evidence.kind = "str"
    /\ \E i \in 1..Len(children[1].evidence.s) : children[1].evidence.s[i] = shape_id
    /\ \E k \in 1..(Len(children) - 1) :
          /\ \A i \in 2..k : children[i].type = "observation"
          /\ \A i \in (k + 1)..Len(children) : children[i].type = "inference"

\* C11 (as stated): every tree built for a violation of one of the six
\* branch types that does not end in the error child has one premise with
\* evidence citing the shape id, then zero or more observations, then one
\* or more inferences
C11_SharedBranchShape ==
    (JTBuilt /\ jt_violation.violation_type \in BranchTypes /\ ~EndsInError)
        => SharedShape(JTChildren, jt_violation.shape_id)

\* the text s is in the statement, token for token
HasText(statement, s) ==
    \E i \in 0..(Len(statement) - Len(s)) :
        \A k \in 1..Len(s) : statement[i + k] = s[k]

\* C12: for a violation whose type is Other or no member of the taxonomy
\* the tree is built and its root has exactly one child, of kind unknown,
\* whose statement holds the message verbatim, or "Unknown violation" when
\* there is no message
C12_GenericBranch ==
    (jt_pc = "built" /\ jt_violation.violation_type \notin BranchTypes) =>
        /\ ~jt_outcome.raised
        /\ Len(JTChildren) = 1
        /\ JTChildren[1].type = "unknown"
        /\ IF jt_violation.message.kind = "none"
           THEN HasText(JTChildren[1].statement, <<"Unknown violation">>)
           ELSE HasText(JTChildren[1].statement, jt_violation.message.s)

\* a tree was built for a violation of no taxonomy type and without message
C12_Witness ==
    /\ JTBuilt
    /\ jt_violation.violation_type = None
    /\ jt_violation.message = None
    /\ Len(JTChildren) = 1
    /\ HasText(JTChildren[1].statement, <<"Unknown violation">>)

NeedsPath ==
    /\ jt_violation.violation_type \in {Enum("CARDINALITY"), Enum("VALUE_RANGE")}
    /\ ~Truthy(jt_violation.property_path)

\* C13: for a Cardinality or ValueRange violation without property path the
\* tree is built and its root has exactly one child, of kind error, stating
\* the missing property path -- no premise, observation or inference
C13_MissingPathError ==
    (jt_pc = "built" /\ NeedsPath) =>
        /\ ~jt_outcome.raised
        /\ Len(JTChildren) = 1
        /\ JTChildren[1].type = "error"
        /\ JTChildren[1].statement \in
              {<<"Missing property path information for cardinality constraint">>,
               <<"Missing property path information for value range constraint">>}

\* a Cardinality violation without property path got its error child
C13_Witness ==
    /\ JTBuilt
    /\ jt_violation.violation_type = Enum("CARDINALITY")
    /\ jt_violation.property_path = None
    /\ JTChildTypes = <<"error">>

\* the actual count A and the configured limit M of a count violation
ActualCount ==
    IF jt_violation.context.actualCount # Absent
    THEN jt_violation.context.actualCount
    ELSE count_property_values(data_graph, jt_violation.focus_node,
                               jt_violation.property_path.s)

ConfiguredLimit(limit) == IF limit # Absent THEN limit ELSE 1

HasChild(type, text) ==
    \E i \in 1..Len(JTChildren) :
        JTChildren[i].type = type /\ HasText(JTChildren[i].statement, text)

\* C14 (as stated): the tree of a MinCount (MaxCount) violation with a
\* property path has an observation stating the actual count A and an
\* inference stating "A < at least M" ("A > at most M"), M the configured
\* limit, and the stated relation is true of A and M
C14_CardinalityComparison ==
    (JTBuilt /\ jt_violation.violation_type = Enum("CARDINALITY")
             /\ Truthy(jt_violation.property_path)) =>
        LET A == ActualCount
            min == ConfiguredLimit(jt_violation.context.minCount)
            max == ConfiguredLimit(jt_violation.context.maxCount)
        IN  /\ Contains(jt_violation.constraint_id, "MinCountConstraintComponent") =>
                /\ HasChild("observation", <<" has ", ToString(A), " values for property ">>)
                /\ HasChild("inference",
                            <<"Since ", ToString(A), " ", "<", " ", "at least", " ",
                              ToString(min), ", the node violates the ">>)
                /\ A < min
            /\ Contains(jt_violation.constraint_id, "MaxCountConstraintComponent") =>
                /\ HasChild("observation", <<" has ", ToString(A), " values for property ">>)
                /\ HasChild("inference",
                            <<"Since ", ToString(A), " ", ">", " ", "at most", " ",
                              ToString(max), ", the node violates the ">>)
                /\ A > max

---------------------------------------------------------------------------
(* Claims about the explanation generator (checked under SpecGen)          *)

\* C15 (as stated): a failure of the backend never leaves the generator as
\* an exception -- the call returns, and the text of every language whose
\* request failed is the error string naming the language; for the remote
\* and for the local generator
C15_FailureBecomesText ==
    gen_pc # "input" =>
        /\ gen_pc = "returned"
        /\ Len(gen_output) = Len(gen_languages)
        /\ \A i \in 1..Len(gen_languages) :
              gen_oracle[<<1, gen_languages[i]>>] = "failure" =>
                  /\ gen_output[i][1] = gen_languages[i]
                  /\ HasText(gen_output[i][2].natural_language_explanation,
                             <<"Error generating explanation in ", gen_languages[i]>>)

---------------------------------------------------------------------------
(* Claims about the cache calls of a pipeline run (checked under Spec)     *)

CountCalls(log, call) == Cardinality({i \in 1..Len(log) : log[i] = call})

---------------------------------------------------------------------------
(* Claims about load and save (checked under SpecKG)                       *)

\* C17 (as stated): load merges -- every (signature, language) record that
\* get_explanation finds in memory before load_kg() is still found after it
C17_LoadMerges ==
    [][kg_op'.op = "load" =>
          \A sig \in KGSigs, language \in Languages :
              get_explanation(graph, sig, language).found
                  => get_explanation(graph', sig, language).found]_vars

\* C17 (amended): load replaces -- after load_kg() the in-memory graph is
\* exactly the saved file: every saved record is present, and what was in
\* memory and not saved is gone; and at every moment each record of the
\* file is also in memory, so the next save_kg() keeps it
C17_LoadReplaces ==
    /\ kg_op.op = "load" =>
          /\ graph = disk
          /\ \A sig \in KGSigs, language \in Languages :
                get_explanation(graph, sig, language)
                = get_explanation(disk, sig, language)
    /\ \A sig \in KGSigs, language \in Languages :
          get_explanation(disk, sig, language).found
              => get_explanation(graph, sig, language).found

\* a load has changed the in-memory graph, and records are in the file
C17_Witness ==
    /\ kg_op.op = "load" /\ kg_op.changed
    /\ \E sig \in KGSigs, language \in Languages :
          get_explanation(graph, sig, language).found


---------------------------------------------------------------------------
(* Claim about a violation without constraint_id (checked under SpecSig)   *)

\* C19: the factory makes no signature for a violation whose constraint_id
\* is missing (it raises instead), so that violation is in no group
C19_MissingConstraintIdRaises ==
    /\ sig_pc \in {"sig", "uri"} /\ violA # NoViolation
           /\ violA.constraint_id = None
       => sigA = NoSignature
    /\ sig_pc \in {"sig", "uri"} /\ violB # NoViolation
           /\ violB.constraint_id = None
       => sigB = NoSignature

---------------------------------------------------------------------------
(* Claim about a damaged record in the file (checked under SpecKG)         *)

\* the graph holds a text for (sig, language) and a JSON literal of that
\* record that does not decode
HasCorruptRecord(g, sig, language) ==
    LET expl_uri == ExplanationUriOf(g, signature_to_uri(sig))
    IN  /\ expl_uri # NoUri
        /\ LangLiterals(g.naturalLanguageText, expl_uri, language) # {}
        /\ \E j \in g.json : j[1] = expl_uri /\ ~ Decodes(j[3])

\* C20: a corrupt record is a cache miss -- get_explanation returns None
\* for its (signature, language), and once an explanation has been put for
\* the pair the record in memory, which the next save writes, is no longer
\* the corrupt one
C20_CorruptRecordIsMiss ==
    /\ \A sig \in KGSigs, language \in Languages :
          HasCorruptRecord(graph, sig, language)
              => ~ get_explanation(graph, sig, language).found
    /\ kg_op.op = "add" =>
          ~ HasCorruptRecord(graph, kg_op.sig, kg_op.language)

---------------------------------------------------------------------------
(* Claims about has_violation, the frame of add_violation and clear        *)
(* (checked under SpecKG)                                                  *)

HasGetAgree ==
    \A sig \in KGSigs, language \in Languages :
        has_violation(graph, sig, language)
        <=> get_explanation(graph, sig, language).found

NothingStored(g) ==
    \A sig \in KGSigs, language \in Languages : ~ has_violation(g, sig, language)

WithoutModel(found) == [found EXCEPT !.value.provided_by_model = None]

---------------------------------------------------------------------------
(* Claim about a failing remote backend (checked under Spec)               *)

\* the text the remote generator returns when the backend call fails
ErrorText(language) ==
    RemoteExplanation("failure", language).natural_language_explanation

\* C23: in a completed run with the remote generator, every requested
\* language without a cached record for a violation's signature is asked of
\* the backend; when the backend fails for it, the error string is the text
\* of the pair's record in the saved file; and a pair that had a record at
\* the start of the run (as in a later run) is not asked again and the
\* cached text is in the output
C23_ErrorTextIsCached ==
    (pc \in {"saved", "done"} /\ ~ local) =>
        \A i \in 1..Len(violations), l \in RequestedLanguages :
            LET signature == create_violation_signature(violations[i])
                cached == get_explanation(cache_at_start, signature, l)
            IN  IF cached.found
                THEN /\ CallsFor(violations[i], l) = {}
                     /\ pc = "done" =>
                            \E e \in 1..Len(final_explanations_output) :
                                \E k \in 1..Len(final_explanations_output[e].explanation) :
                                    final_explanations_output[e].explanation[k]
                                    = <<l, to_dict(cached.value)>>
                ELSE /\ CallsFor(violations[i], l) # {}
                     /\ \A c \in CallsFor(violations[i], l) :
                           llm_calls[c][3] = "failure" =>
                               LET saved == get_explanation(disk, signature, l)
                               IN  /\ saved.found
                                   /\ saved.value.natural_language_explanation
                                        = ErrorText(l)

---------------------------------------------------------------------------
(* Claim about the parameters of a signature (checked under SpecSig)       *)

ParamsOf(constraint_id) ==
    IF constraint_id = Str(MinCountIRI) THEN <<<<"minCount", "1">>>> ELSE << >>

\* C24: the factory's constraint_params depend on the constraint id alone
\* ({minCount: "1"} for MinCountConstraintComponent, else empty); two
\* violations of the same constraint, path and type get equal signatures and
\* the same cache key whatever their contexts hold
C24_ParamsFromConstraintIdAlone ==
    (sig_pc \in {"sig", "uri"} /\ violA # NoViolation /\ violB # NoViolation) =>
        /\ sigA.constraint_params = ParamsOf(violA.constraint_id)
        /\ sigB.constraint_params = ParamsOf(violB.constraint_id)
        /\ (/\ violA.constraint_id = violB.constraint_id
            /\ violA.property_path = violB.property_path
            /\ violA.violation_type = violB.violation_type)
           => /\ sigA = sigB
              /\ sig_pc = "uri" => (sigEq /\ uriA = uriB)

\* two MinCount violations on the same path, one with a configured minCount
\* of 2 in its context and one without, have got the same key
C24_Witness ==
    /\ sig_pc = "uri"
    /\ violA.constraint_id = Str(MinCountIRI)
    /\ violB.constraint_id = Str(MinCountIRI)
    /\ violA.property_path = violB.property_path
    /\ violA.violation_type = violB.violation_type
    /\ violA.context.minCount = 2 /\ violB.context.minCount = Absent
    /\ sigA.constraint_params = <<<<"minCount", "1">>>>
    /\ uriA = uriB

---------------------------------------------------------------------------
(* Claims about the configured values in the tree (checked under SpecJT)   *)

\* the inference children of the tree that was built
InferenceStatements ==
    {JTChildren[i].statement :
        i \in {j \in 1..Len(JTChildren) : JTChildren[j].type = "inference"}}

\* the objects of the shape's triples with the predicate, in iteration order
Configured(predicate) == Objects(shapes_graph, jt_violation.shape_id, predicate)

\* C25: when several triples of the shape match the constraint predicate
\* (here sh:datatype), the inference is worded with the first match
C25_FirstMatchIsUsed ==
    (/\ JTBuilt
     /\ jt_violation.violation_type = Enum("VALUE_TYPE")
     /\ Contains(jt_violation.constraint_id, "DatatypeConstraintComponent")
     /\ Configured(SH("datatype")) # << >>)
    => (<<"The value does not match the required datatype ">>
            \o format_uri(Configured(SH("datatype"))[1]))
       \in InferenceStatements


\* the four range constraints: the component and the predicate of its bound
RangeCases ==
    {<<"MinExclusiveConstraintComponent", "minExclusive">>,
     <<"MinInclusiveConstraintComponent", "minInclusive">>,
     <<"MaxExclusiveConstraintComponent", "maxExclusive">>,
     <<"MaxInclusiveConstraintComponent", "maxInclusive">>}

IsRangeCase(violation, case) ==
    /\ violation.violation_type = Enum("VALUE_RANGE")
    /\ violation.constraint_id = Str(SH(case[1]))

\* the inference statements of the tree built for the same violation under
\* another range constraint
InferencesOf(case) ==
    LET other == build_justification_tree(data_graph, shapes_graph,
                     [jt_violation EXCEPT !.constraint_id = Str(SH(case[1]))])
        children == other.tree.root.children
    IN  {children[i].statement :
            i \in {j \in 1..Len(children) : children[j].type = "inference"}}

\* C26: the tree of a range violation with a property path states the
\* actual value in an observation and the configured bound in an inference,
\* and for the same bound the inference of each of the other three
\* sub-cases is worded differently
C26_RangeWordingsDiffer ==
    \A case \in RangeCases :
        (/\ JTBuilt /\ IsRangeCase(jt_violation, case)
         /\ Truthy(jt_violation.property_path)
         /\ Configured(SH(case[2])) # << >>)
        => /\ HasChild("observation", PyStr(jt_violation.value))
           /\ HasChild("inference", LastObject(shapes_graph, jt_violation.shape_id,
                                               SH(case[2])))
           /\ \A other \in RangeCases \ {case} :
                 LastObject(shapes_graph, jt_violation.shape_id, SH(other[2]))
                   = LastObject(shapes_graph, jt_violation.shape_id, SH(case[2]))
                 => InferencesOf(other) \cap InferenceStatements = {}


IsPatternCase(violation) ==
    /\ violation.violation_type = Enum("PATTERN")
    /\ Contains(violation.constraint_id, "PatternConstraintComponent")

\* the pattern and the flags are stated by two different inference children
PatternAndFlagsApart(pattern, flags) ==
    \E i, j \in 1..Len(JTChildren) :
        /\ i # j
        /\ JTChildren[i].type = "inference" /\ JTChildren[j].type = "inference"
        /\ HasText(JTChildren[i].statement, pattern)
        /\ HasText(JTChildren[j].statement, flags)

PatternInferences ==
    (JTBuilt /\ IsPatternCase(jt_violation)) =>
        LET pattern == LastObject(shapes_graph, jt_violation.shape_id, SH("pattern"))
            flags == LastObject(shapes_graph, jt_violation.shape_id, SH("flags"))
        IN  /\ pattern # << >> => HasChild("inference", pattern)
            /\ flags # << >> => HasChild("inference", flags)
            /\ (pattern # << >> /\ flags # << >>)
                   => PatternAndFlagsApart(pattern, flags)

\* C27 (as stated): whenever the shape has the bound of a range violation,
\* or the pattern or flags of a pattern violation, an inference child holds
\* the configured value verbatim, pattern and flags in two separate children
C27_ConfiguredValueVerbatim ==
    /\ \A case \in RangeCases :
          (/\ JTBuilt /\ IsRangeCase(jt_violation, case)
           /\ Configured(SH(case[2])) # << >>)
          => HasChild("inference", LastObject(shapes_graph, jt_violation.shape_id,
                                              SH(case[2])))
    /\ PatternInferences

\* C27 (amended): the same, but for a range violation only when it has a
\* property path; without one the tree has the error child and no inference
C27_ConfiguredValueWithPath ==
    /\ \A case \in RangeCases :
          (/\ JTBuilt /\ IsRangeCase(jt_violation, case)
           /\ Configured(SH(case[2])) # << >>)
          => IF Truthy(jt_violation.property_path)
             THEN HasChild("inference", LastObject(shapes_graph, jt_violation.shape_id,
                                                   SH(case[2])))
             ELSE InferenceStatements = {} /\ EndsInError
    /\ PatternInferences

\* a pattern violation was built on a shape with sh:pattern and sh:flags
C27_Witness ==
    /\ JTBuilt /\ IsPatternCase(jt_violation)
    /\ Configured(SH("pattern")) # << >> /\ Configured(SH("flags")) # << >>
    /\ Cardinality(InferenceStatements) = 2
    /\ HasChild("inference", <<"^a">>) /\ HasChild("inference", <<"i">>)


\* the property pair constraints: the component and its predicate
PairCases ==
    {<<"EqualsConstraintComponent", "equals">>,
     <<"DisjointConstraintComponent", "disjoint">>,
     <<"LessThanConstraintComponent", "lessThan">>,
     <<"LessThanOrEqualsConstraintComponent", "lessThanOrEquals">>}

\* some child of the root holds the text in its statement or its evidence
TreeSays(text) ==
    \E i \in 1..Len(JTChildren) :
        \/ HasText(JTChildren[i].statement, text)
        \/ /\ JTChildren[i].evidence.kind = "str"
           /\ HasText(JTChildren[i].evidence.s, text)

\* C28: the tree of a property pair violation reports the values the focus
\* node has for the paired property in the data graph, and says that no
\* value was found when it has none
C28_PairedValuesReported ==
    \A case \in PairCases :
        (/\ JTBuilt
         /\ jt_violation.violation_type = Enum("PROPERTY_PAIR")
         /\ jt_violation.constraint_id = Str(SH(case[1]))
         /\ Configured(SH(case[2])) # << >>)
        => LET paired == LastObject(shapes_graph, jt_violation.shape_id, SH(case[2]))
               values == Objects(data_graph, jt_violation.focus_node, paired)
           IN  IF values = << >>
               THEN TreeSays(<<"no value was found">>)
                    \/ TreeSays(<<"has no values">>)
               ELSE \A k \in 1..Len(values) : TreeSays(values[k])

---------------------------------------------------------------------------
(* Claim about clear (checked under SpecKG)                                *)

---------------------------------------------------------------------------
(* ExtendedShaclValidator._add_violation_context                           *)
(* (extended_shacl_validator.py).  An rdflib Literal is its datatype and   *)
(* its lexical form.                                                       *)

Literal(datatype, lex) == [kind |-> "literal", datatype |-> datatype, lex |-> lex]

\* int(x) of a lexical form: the number, or ValueError
IntLexicals == {"0", "1", "2", "3"}
int(lex) ==
    IF lex = "0" THEN 0 ELSE IF lex = "1" THEN 1 ELSE IF lex = "2" THEN 2 ELSE 3

\* Literal.__bool__: of the value for a number, of the text otherwise
Literal_bool(l) ==
    IF l.datatype = "integer" THEN l.lex \in IntLexicals /\ int(l.lex) # 0
    ELSE l.lex # ""

\* URIRef.fragment: what follows the '#'
Fragment(uri) ==
    IF \E i \in 1..Len(uri) : uri[i] = "www.w3.org/ns/shacl#"
    THEN uri[Len(uri)]
    ELSE ""

\* for s, p, o in triples(...): context[key] = int(o)
CountFromShape(sg, violation, predicate, old) ==
    LET objects == Objects(sg, violation.shape_id, predicate)
    IN  IF \E i \in 1..Len(objects) : objects[i][1] \notin IntLexicals
        THEN [raised |-> TRUE, n |-> old]
        ELSE [raised |-> FALSE,
              n |-> IF objects = << >> THEN old
                    ELSE int(objects[Len(objects)][1])]

\* the same without the test of the violation type
add_violation_context_any_type(sg, result, violation) ==
    [raised |-> FALSE,
     violation |->
        [violation EXCEPT
            !.severity = IF result.severity # None
                         THEN Fragment(result.severity.s) ELSE @,
            !.context.actualCount =
                IF /\ result.value # None /\ Literal_bool(result.value)
                   /\ result.value.lex \in IntLexicals
                THEN int(result.value.lex) ELSE @]]

add_violation_context(sg, result, violation) ==
    LET cardinality == violation.violation_type = Enum("CARDINALITY")
        is_min == cardinality
                  /\ Contains(violation.constraint_id, "MinCountConstraintComponent")
        is_max == cardinality /\ ~ is_min
                  /\ Contains(violation.constraint_id, "MaxCountConstraintComponent")
        minCount == IF is_min
                    THEN CountFromShape(sg, violation, SH("minCount"),
                                        violation.context.minCount)
                    ELSE [raised |-> FALSE, n |-> violation.context.minCount]
        maxCount == IF is_max
                    THEN CountFromShape(sg, violation, SH("maxCount"),
                                        violation.context.maxCount)
                    ELSE [raised |-> FALSE, n |-> violation.context.maxCount]
        severity == IF result.severity # None
                    THEN Fragment(result.severity.s) ELSE violation.severity
        count == result.value
        actualCount ==
            IF /\ cardinality /\ count # None /\ Literal_bool(count)
               /\ count.lex \in IntLexicals
            THEN int(count.lex) ELSE violation.context.actualCount
    IN  IF minCount.raised \/ maxCount.raised
        THEN [raised |-> TRUE, violation |-> violation]     \* ValueError of int(o)
        ELSE [raised |-> FALSE,
              violation |->
                 [violation EXCEPT
                     !.severity = severity,
                     !.context = [minCount |-> minCount.n, maxCount |-> maxCount.n,
                                  actualCount |-> actualCount]]]

---------------------------------------------------------------------------
(* SpecCtx: one call of _add_violation_context                             *)

CtxViolations ==
    {Violation("ex:n1", "ex:S1", cid, vt, None, None, None, "Violation", ctx) :
        cid \in {Str(SH(n)) : n \in {"MinCountConstraintComponent",
                                      "MaxCountConstraintComponent",
                                      "DatatypeConstraintComponent"}},
        vt \in ViolationTypes,
        ctx \in {EmptyContext, [minCount |-> 3, maxCount |-> 3, actualCount |-> 3]}}

CtxResults ==
    [severity : {None, Str(SH("Warning")), Str(SH("Info")),
                 Str(<<"http://", "example.org/severity">>)},
     value : {None, Literal("integer", "0"), Literal("integer", "2"),
              Literal("string", "2"), Literal("string", "non-integer"),
              Literal("string", "")}]

CtxShapesGraphs ==
    {<< >>,
     <<Triple("ex:S1", SH("minCount"), <<"1">>),
       Triple("ex:S1", SH("maxCount"), <<"2">>)>>,
     <<Triple("ex:S1", SH("minCount"), <<"1">>),
       Triple("ex:S1", SH("minCount"), <<"2">>)>>,
     <<Triple("ex:S1", SH("minCount"), <<"many">>)>>}

CtxInit ==
    /\ SigIdle /\ KGIdle /\ JTIdle /\ MainIdle /\ GenIdle
    /\ data_graph = << >>
    /\ shapes_graph \in CtxShapesGraphs
    /\ ctx_pc = "input"
    /\ ctx_violation \in CtxViolations
    /\ ctx_result \in CtxResults
    /\ ctx_outcome = NoViolation

\* _add_violation_context(validation_graph, result, violation)
Ctx_AddViolationContext ==
    /\ ctx_pc = "input"
    /\ LET outcome == add_violation_context(shapes_graph, ctx_result, ctx_violation)
       IN  /\ ctx_pc' = IF outcome.raised THEN "raised" ELSE "returned"
           /\ ctx_outcome' = outcome.violation
    /\ UNCHANGED <<ctx_violation, ctx_result, sig_vars, kg_vars, jt_vars, main_vars,
                   gen_vars>>

CtxNext == Ctx_AddViolationContext

SpecCtx == CtxInit /\ [][CtxNext]_vars

---------------------------------------------------------------------------
(* Claim about the context of a violation (checked under SpecCtx)          *)

\* C30: the call changes the context only for a Cardinality violation --
\* minCount (or maxCount) becomes the shape's configured value, actualCount
\* changes only to the integer the result's value converts to -- and leaves
\* it as it was for every other type; the severity becomes the fragment of
\* the result's severity; nothing else of the violation changes
C30_ContextOnlyForCardinality ==
    ctx_pc = "returned" =>
        LET old == ctx_violation
            new == ctx_outcome
            configured(p) == Objects(shapes_graph, old.shape_id, SH(p))
            last(p) == int(configured(p)[Len(configured(p))][1])
        IN  /\ [new EXCEPT !.context = old.context, !.severity = old.severity] = old
            /\ old.violation_type # Enum("CARDINALITY") => new.context = old.context
            /\ old.violation_type = Enum("CARDINALITY") =>
                  /\ new.context.minCount =
                        IF /\ Contains(old.constraint_id, "MinCountConstraintComponent")
                           /\ configured("minCount") # << >>
                        THEN last("minCount") ELSE old.context.minCount
                  /\ new.context.maxCount =
                        IF /\ Contains(old.constraint_id, "MaxCountConstraintComponent")
                           /\ configured("maxCount") # << >>
                        THEN last("maxCount") ELSE old.context.maxCount
                  /\ new.context.actualCount # old.context.actualCount =>
                        /\ ctx_result.value # None
                        /\ ctx_result.value.lex \in IntLexicals
                        /\ new.context.actualCount = int(ctx_result.value.lex)
            /\ ctx_result.severity # None =>
                  new.severity = Fragment(ctx_result.severity.s)

\* a MinCount violation got the configured minCount, the actual count and
\* the severity of the result
C30_Witness ==
    /\ ctx_pc = "returned"
    /\ ctx_violation.violation_type = Enum("CARDINALITY")
    /\ ctx_violation.context = EmptyContext
    /\ ctx_outcome.context = [minCount |-> 2, maxCount |-> Absent, actualCount |-> 2]
    /\ ctx_outcome.severity = "Warning"

===========================================================================
